---- MODULE Spec2Model ----
(***************************************************************************)
(* Copy-on-write, reference-counted string buffers of amvsimpstr.h:        *)
(* BStringData (header + payload), CNilStringData, CSimpleStringT.         *)
(*                                                                         *)
(* A buffer is a record; a handle (CSimpleStringT) is the id of the buffer *)
(* its m_pszData points into.  Every member function is an operator that   *)
(* maps a machine record M (handles, buffers, fault raised so far) to the  *)
(* machine after the call; the actions at the end apply one public member  *)
(* function each.  The allocator (IAmvStringMgr) is an interface in the    *)
(* header; its behaviour is modelled from the design document.             *)
(***************************************************************************)
EXTENDS Integers, Sequences, FiniteSets, TLC

\* ------------------------------------------------------------ bounds
\* Buffers the allocator can hand out in one run (ids are never reused).
MaxBufs == 2
\* Longest string / largest capacity a caller asks for.
MaxLen == 2
\* Deepest nesting of LockBuffer calls on one buffer.
MaxLockDepth == 2

Handles == {1, 2}
\* The value operator+ returns.
Temps == {3}
AllHandles == Handles \cup Temps
\* Handles the mutating members are called on; the other handle is only
\* constructed, copied, assigned to and destroyed.
Writers == {1}
\* Manager 1 is a stateless heap manager (Clone returns itself); manager 2
\* is a manager whose Clone hands out manager 1.
Mgrs == {1, 2}
Chars == {1}
NUL == 0
NoBuf == 0
\* Content of memory the allocator returns: NUL or some character.
FillVals == {0, 1}

NilOf(m) == m
NilIds == {NilOf(m) : m \in Mgrs}
HeapIds == (Cardinality(Mgrs) + 1)..(Cardinality(Mgrs) + MaxBufs)
BufIds == NilIds \cup HeapIds

\* Source spans a caller passes (external memory, not inside any buffer).
Srcs == {<<>>, <<1>>, <<1, 1>>}

\* hnd[h]      buffer handle h is attached to (NoBuf: h does not exist)
\* bufs[b]     header and payload of buffer b
\* owed[b]     AddRef calls minus Release calls on b so far
\* frees[b]    calls of the allocator's Free on b so far (2: two or more)
\* open[h]     h handed out a pointer by GetBuffer and ReleaseBuffer has
\*             not been called yet
\* lockPtr[h]  the pointer LockBuffer returned, until UnlockBuffer unpins
\* asserts     AMVASSERTs of the reference-count engine that failed
VARIABLES hnd, bufs, owed, frees, open, lockPtr, asserts

\* Execution contexts that run members concurrently, one read or one
\* interlocked operation at a time, each on handles of its own:
\* cbufs[b]    count and payload of buffer b
\* cfrees[b]   calls of the allocator's Free on b so far
\* chnd[t][s]  buffer the handle in slot s of context t is attached to
\* pc[t]       where context t is inside the member it runs
\* slot[t]     the handle (slot) that member was called on
\* reg[t]      the count context t read or got back from the interlocked
\*             operation
\* pNew[t]     pNewData of the Fork context t is in
\* nOps[t]     members context t has called so far
\* racyWrite   some context wrote to a payload another handle referred to
\* earlyFree   some buffer was freed while another handle referred to it
VARIABLES cbufs, cfrees, chnd, pc, slot, reg, pNew, nOps, racyWrite, earlyFree

svars == <<hnd, bufs, owed, frees, open, lockPtr, asserts>>
cvars == <<cbufs, cfrees, chnd, pc, slot, reg, pNew, nOps, racyWrite,
           earlyFree>>

\* PrepareWrite2 on an unshared buffer, with capacities over the whole
\* range of int (the payload is left out):
\* gAlloc     nAllocLength of the buffer
\* gLength    the minimum length asked for, above gAlloc
\* gReq       the capacity passed to Reallocate ({}: not called yet)
\* gGrown     times the buffer has grown so far
VARIABLES gAlloc, gLength, gReq, gGrown
gvars == <<gAlloc, gLength, gReq, gGrown>>

vars == <<svars, cvars, gvars>>

Min(a, b) == IF a < b THEN a ELSE b
Max(a, b) == IF a < b THEN b ELSE a

\* ------------------------------------------------------------ buffers
NoData == [st |-> "unalloc", mgr |-> 0, nDataLength |-> 0, nAllocLength |-> 0,
           nRefs |-> 0, data |-> <<>>]

\* CNilStringData::CNilStringData, then SetManager(pMgr)
NilRefs == 2
CNilStringData(m) ==
    [st |-> "nil", mgr |-> m, nDataLength |-> 0, nAllocLength |-> 0,
     nRefs |-> NilRefs, data |-> <<NUL>>]

\* The machine a call starts from: the state, no fault raised yet.
\*   fault     the fault the call has raised ("none": it returns normally)
\*   ret       value returned by the last allocator call / CloneData
\*   mut       the call asked for mutable access to the payload
\*   allocNull an Allocate or Reallocate call of this call returned NULL
\*   allocs    calls of IAmvStringMgr::Allocate the call has made
\*   reallocs  calls of IAmvStringMgr::Reallocate the call has made
\*   reallocShared  one of them was given a block with nRefs > 1
Machine ==
    [hnd |-> hnd, bufs |-> bufs, owed |-> owed, frees |-> frees,
     open |-> open, lockPtr |-> lockPtr, asserts |-> asserts,
     fault |-> "none", ret |-> NoBuf, mut |-> FALSE, allocNull |-> FALSE,
     allocs |-> 0, reallocs |-> 0, reallocShared |-> FALSE]

Throw(M, f) == IF M.fault = "none" THEN [M EXCEPT !.fault = f] ELSE M
ThrowMemoryException(M) == Throw(M, "OutOfMemory")
AmvThrow(M) == Throw(M, "InvalidArgument")

AssertThat(M, cond, name) ==
    IF cond THEN M ELSE [M EXCEPT !.asserts = @ \cup {name}]

IsLocked(B) == B.nRefs < 0
IsSharedOffByOne(B) == B.nRefs > 2
IsShared(B) == B.nRefs > 1

\* ------------------------------------------------------------ allocator
\* Outcome of the one allocator call a member function makes:
\*   ok   the allocator has memory;  move  Reallocate returns another block;
\*   fill what the fresh memory holds.
AllocOutcomes ==
    {[ok |-> FALSE, move |-> FALSE, fill |-> 0]}
        \cup [ok : {TRUE}, move : {FALSE}, fill : FillVals]
        \cup [ok : {TRUE}, move : {TRUE}, fill : {1}]

Unused(M) ==
    {b \in DOMAIN M.bufs : b \notin NilIds /\ M.bufs[b].st = "unalloc"}
Fresh(M) == CHOOSE b \in Unused(M) : \A c \in Unused(M) : b <= c

\* IAmvStringMgr::Clone
Clone(m) == IF m = 2 THEN 1 ELSE m

\* IAmvStringMgr::Allocate: a new block of nLength + 1 characters, one
\* owner, or NULL.
Allocate(M, m, nLength, al) ==
    IF ~al.ok \/ Unused(M) = {} \/ nLength < 0
    THEN [M EXCEPT !.ret = NoBuf, !.allocNull = TRUE, !.allocs = @ + 1]
    ELSE LET b == Fresh(M)
         IN [M EXCEPT !.ret = b, !.allocs = @ + 1,
                      !.bufs[b] = [st |-> "live", mgr |-> m, nDataLength |-> 0,
                                   nAllocLength |-> nLength, nRefs |-> 1,
                                   data |-> [i \in 1..(nLength + 1) |-> al.fill]]]

\* IAmvStringMgr::Free: the block is gone.  The nil buffer is a static
\* object, so only the call is recorded for it.
Free(M, b) ==
    LET M1 == [M EXCEPT !.frees[b] = Min(@ + 1, 2)]
    IN IF b \in NilIds THEN M1
       ELSE [M1 EXCEPT !.bufs[b] = [NoData EXCEPT !.st = "freed"]]

\* IAmvStringMgr::Reallocate: NULL (the block is untouched), the same block
\* grown in place, or another block holding a copy of header and payload
\* (the old block is then gone, without a call of Free).
ReallocateBlock(M0, b, nLength, al) ==
    LET M == [M0 EXCEPT !.reallocs = @ + 1,
                        !.reallocShared = @ \/ M0.bufs[b].nRefs > 1]
        B == M.bufs[b]
        grown == [i \in 1..(nLength + 1) |->
                    IF i <= Len(B.data) THEN B.data[i] ELSE al.fill]
        NB == [B EXCEPT !.nAllocLength = nLength, !.data = grown]
    IN IF ~al.ok
       THEN [M EXCEPT !.ret = NoBuf, !.allocNull = TRUE]
       ELSE IF al.move /\ Unused(M) # {}
       THEN LET n == Fresh(M)
            IN [M EXCEPT !.ret = n, !.bufs[n] = NB, !.owed[n] = M.owed[b],
                         !.bufs[b] = [NoData EXCEPT !.st = "moved"],
                         !.owed[b] = 0]
       ELSE [M EXCEPT !.ret = b, !.bufs[b] = NB]

\* ------------------------------------------------------------ BStringData
\* BStringData::AddRef
AddRef(M, b) ==
    LET M1 == AssertThat(M, M.bufs[b].nRefs > 0, "AddRef")
    IN [M1 EXCEPT !.bufs[b].nRefs = @ + 1, !.owed[b] = @ + 1]

\* IAmvStringMgr::GetNilString: the manager's nil buffer, with a reference
\* taken for the caller (every handle releases what it is attached to).
GetNilString(M, m) == [AddRef(M, NilOf(m)) EXCEPT !.ret = NilOf(m)]

\* BStringData::Lock
Lock(M, b) ==
    LET M1 == AssertThat(M, M.bufs[b].nRefs <= 1, "Lock")
        n == M.bufs[b].nRefs - 1
    IN [M1 EXCEPT !.bufs[b].nRefs = IF n = 0 THEN -1 ELSE n]

\* Release that frees the block one reference too early.
ReleaseEarly(M, b) ==
    LET n == M.bufs[b].nRefs - 1
        M2 == [M EXCEPT !.bufs[b].nRefs = n, !.owed[b] = @ - 1]
    IN IF n <= 1 THEN Free(M2, b) ELSE M2

\* BStringData::Release
Release(M, b) ==
    LET M1 == AssertThat(M, M.bufs[b].nRefs # 0, "Release")
        n == M.bufs[b].nRefs - 1
        M2 == [M1 EXCEPT !.bufs[b].nRefs = n, !.owed[b] = @ - 1]
    IN IF n <= 0 THEN Free(M2, b) ELSE M2

\* Unlock without the step from 0 to 1.
UnlockNoFix(M, b) ==
    IF IsLocked(M.bufs[b])
    THEN [M EXCEPT !.bufs[b].nRefs = @ + 1]
    ELSE M

\* BStringData::Unlock
Unlock(M, b) ==
    IF IsLocked(M.bufs[b])
    THEN LET n == M.bufs[b].nRefs + 1
         IN [M EXCEPT !.bufs[b].nRefs = IF n = 0 THEN 1 ELSE n]
    ELSE M

\* ------------------------------------------------------------ CSimpleStringT
GetData(M, h) == M.hnd[h]
Attach(M, h, b) == [M EXCEPT !.hnd[h] = b]
GetLength(M, h) == M.bufs[GetData(M, h)].nDataLength
GetAllocLength(M, h) == M.bufs[GetData(M, h)].nAllocLength

\* memcpy/memmove of n characters between payloads (0-based offsets); the
\* ranges never overlap where CopyChars is used.
CopyChars(M, dst, dOff, src, sOff, n) ==
    LET S == M.bufs[src].data
        D == M.bufs[dst].data
    IN [M EXCEPT !.bufs[dst].data =
          [i \in 1..Len(D) |->
             IF i > dOff /\ i <= dOff + n /\ (i - dOff + sOff) \in 1..Len(S)
             THEN S[i - dOff + sOff] ELSE D[i]]]

\* CopyChars from a span outside every buffer.
CopyCharsFrom(M, dst, dOff, s, n) ==
    LET D == M.bufs[dst].data
    IN [M EXCEPT !.bufs[dst].data =
          [i \in 1..Len(D) |->
             IF i > dOff /\ i <= dOff + n /\ (i - dOff) \in 1..Len(s)
             THEN s[i - dOff] ELSE D[i]]]

\* SetLength that leaves the terminator to the caller.
SetLengthNoTerminator(M, h, nLength) ==
    IF M.fault # "none" THEN M
    ELSE IF nLength < 0 \/ nLength > GetAllocLength(M, h)
    THEN AmvThrow(M)
    ELSE [M EXCEPT !.bufs[GetData(M, h)].nDataLength = nLength]

\* CSimpleStringT::SetLength
SetLength(M, h, nLength) ==
    IF M.fault # "none" THEN M
    ELSE IF nLength < 0 \/ nLength > GetAllocLength(M, h)
    THEN AmvThrow(M)
    ELSE LET b == GetData(M, h)
         IN [M EXCEPT !.bufs[b].nDataLength = nLength,
                      !.bufs[b].data[nLength + 1] = NUL]

\* Fork that keeps its reference to the old buffer.
ForkNoRelease(M, h, nLength, al) ==
    LET pOldData == GetData(M, h)
        nOldLength == M.bufs[pOldData].nDataLength
        M1 == Allocate(M, Clone(M.bufs[pOldData].mgr), nLength, al)
        pNewData == M1.ret
    IN IF pNewData = NoBuf THEN ThrowMemoryException(M1)
       ELSE LET nCharsToCopy == Min(nOldLength, nLength) + 1
                M2 == CopyChars(M1, pNewData, 0, pOldData, 0, nCharsToCopy)
                M3 == [M2 EXCEPT !.bufs[pNewData].nDataLength = nOldLength]
            IN Attach(M3, h, pNewData)

\* Fork that releases the old buffer before it allocates the new one.
ForkReleaseFirst(M, h, nLength, al) ==
    LET pOldData == GetData(M, h)
        nOldLength == M.bufs[pOldData].nDataLength
        M0 == Release(M, pOldData)
        M1 == Allocate(M0, Clone(M.bufs[pOldData].mgr), nLength, al)
        pNewData == M1.ret
    IN IF pNewData = NoBuf THEN ThrowMemoryException(M1)
       ELSE LET nCharsToCopy == Min(nOldLength, nLength) + 1
                M2 == CopyChars(M1, pNewData, 0, pOldData, 0, nCharsToCopy)
                M3 == [M2 EXCEPT !.bufs[pNewData].nDataLength = nOldLength]
            IN Attach(M3, h, pNewData)

\* CSimpleStringT::Fork
Fork(M, h, nLength, al) ==
    LET pOldData == GetData(M, h)
        nOldLength == M.bufs[pOldData].nDataLength
        M1 == Allocate(M, Clone(M.bufs[pOldData].mgr), nLength, al)
        pNewData == M1.ret
    IN IF pNewData = NoBuf THEN ThrowMemoryException(M1)
       ELSE LET nCharsToCopy == Min(nOldLength, nLength) + 1
                M2 == CopyChars(M1, pNewData, 0, pOldData, 0, nCharsToCopy)
                M3 == [M2 EXCEPT !.bufs[pNewData].nDataLength = nOldLength]
                M4 == Release(M3, pOldData)
            IN Attach(M4, h, pNewData)

\* Reallocate that returns when the allocator has no memory.
ReallocateIgnoreNull(M, h, nLength, al) ==
    LET pOldData == GetData(M, h)
    IN IF M.bufs[pOldData].nAllocLength >= nLength \/ nLength <= 0
       THEN ThrowMemoryException(M)
       ELSE LET M1 == ReallocateBlock(M, pOldData, nLength, al)
            IN IF M1.ret = NoBuf THEN M1 ELSE Attach(M1, h, M1.ret)

\* CSimpleStringT::Reallocate
Reallocate(M, h, nLength, al) ==
    LET pOldData == GetData(M, h)
    IN IF M.bufs[pOldData].nAllocLength >= nLength \/ nLength <= 0
       THEN ThrowMemoryException(M)
       ELSE LET M1 == ReallocateBlock(M, pOldData, nLength, al)
            IN IF M1.ret = NoBuf THEN ThrowMemoryException(M1)
               ELSE Attach(M1, h, M1.ret)

\* The capacity PrepareWrite2 asks Reallocate for (int arithmetic).
OneGiB == 1073741824
OneMiB == 1048576
IntMax == 2147483647
\* a + b in 32-bit int arithmetic, for a, b >= 0.
AddInt(a, b) ==
    IF a > IntMax - b THEN (a - IntMax - 1) + (b - IntMax - 1) ELSE a + b
GrowLength(nAllocLength, nLength) ==
    LET nNewLength == IF nAllocLength > OneGiB
                      THEN AddInt(nAllocLength, OneMiB)
                      ELSE nAllocLength + nAllocLength \div 2
    IN IF nNewLength < nLength THEN nLength ELSE nNewLength

\* PrepareWrite2 that takes the length asked for as it is.
PrepareWrite2NoRaise(M, h, nLength, al) ==
    LET pOldData == GetData(M, h)
        B == M.bufs[pOldData]
    IN IF IsShared(B) THEN Fork(M, h, nLength, al)
       ELSE IF B.nAllocLength < nLength
       THEN Reallocate(M, h, GrowLength(B.nAllocLength, nLength), al)
       ELSE M

\* CSimpleStringT::PrepareWrite2
PrepareWrite2(M, h, nLengthIn, al) ==
    LET pOldData == GetData(M, h)
        B == M.bufs[pOldData]
        nLength == IF B.nDataLength > nLengthIn THEN B.nDataLength
                   ELSE nLengthIn
    IN IF IsShared(B) THEN Fork(M, h, nLength, al)
       ELSE IF B.nAllocLength < nLength
       THEN Reallocate(M, h, GrowLength(B.nAllocLength, nLength), al)
       ELSE M

\* PrepareWrite that looks at the capacity only.
PrepareWriteNoShareCheck(M, h, nLength, al) ==
    IF M.fault # "none" THEN M
    ELSE IF nLength < 0 THEN AmvThrow(M)
    ELSE LET B == M.bufs[GetData(M, h)]
             nTooShort == B.nAllocLength - nLength
             M1 == [M EXCEPT !.mut = TRUE]
         IN IF nTooShort < 0
            THEN PrepareWrite2(M1, h, nLength, al)
            ELSE M1

\* CSimpleStringT::PrepareWrite
PrepareWrite(M, h, nLength, al) ==
    IF M.fault # "none" THEN M
    ELSE IF nLength < 0 THEN AmvThrow(M)
    ELSE LET B == M.bufs[GetData(M, h)]
             nShared == 1 - B.nRefs
             nTooShort == B.nAllocLength - nLength
             M1 == [M EXCEPT !.mut = TRUE]
         IN IF nShared < 0 \/ nTooShort < 0
            THEN PrepareWrite2(M1, h, nLength, al)
            ELSE M1

\* CSimpleStringT::GetBuffer()
GetBuffer0(M, h, al) ==
    LET B == M.bufs[GetData(M, h)]
        M1 == [M EXCEPT !.mut = TRUE]
    IN IF IsShared(B) THEN Fork(M1, h, B.nDataLength, al) ELSE M1

\* CSimpleStringT::GetBuffer(int)
GetBuffer(M, h, nMinBufferLength, al) ==
    PrepareWrite(M, h, nMinBufferLength, al)

\* CSimpleStringT::GetBufferSetLength
GetBufferSetLength(M, h, nLength, al) ==
    SetLength(GetBuffer(M, h, nLength, al), h, nLength)

\* CSimpleStringT::ReleaseBufferSetLength
ReleaseBufferSetLength(M, h, nNewLength) == SetLength(M, h, nNewLength)

\* CloneData that always makes a deep copy.
CloneDataAlwaysCopy(M, pData, al) ==
    LET B == M.bufs[pData]
        M1 == Allocate(M, Clone(B.mgr), B.nDataLength, al)
        pNewData == M1.ret
    IN IF pNewData = NoBuf THEN ThrowMemoryException(M1)
       ELSE CopyChars([M1 EXCEPT !.bufs[pNewData].nDataLength = B.nDataLength],
                      pNewData, 0, pData, 0, B.nDataLength + 1)

\* CloneData that does not look at the lock.
CloneDataSharesLocked(M, pData, al) ==
    LET B == M.bufs[pData]
        pNewStringMgr == Clone(B.mgr)
    IN IF pNewStringMgr = B.mgr
       THEN [AddRef(M, pData) EXCEPT !.ret = pData]
       ELSE LET M1 == Allocate(M, pNewStringMgr, B.nDataLength, al)
                pNewData == M1.ret
            IN IF pNewData = NoBuf THEN ThrowMemoryException(M1)
               ELSE CopyChars([M1 EXCEPT !.bufs[pNewData].nDataLength =
                                            B.nDataLength],
                              pNewData, 0, pData, 0, B.nDataLength + 1)

\* CSimpleStringT::CloneData: the buffer the copy attaches to is M.ret.
CloneData(M, pData, al) ==
    LET B == M.bufs[pData]
        pNewStringMgr == Clone(B.mgr)
    IN IF ~IsLocked(B) /\ pNewStringMgr = B.mgr
       THEN [AddRef(M, pData) EXCEPT !.ret = pData]
       ELSE LET M1 == Allocate(M, pNewStringMgr, B.nDataLength, al)
                pNewData == M1.ret
            IN IF pNewData = NoBuf THEN ThrowMemoryException(M1)
               ELSE CopyChars([M1 EXCEPT !.bufs[pNewData].nDataLength =
                                            B.nDataLength],
                              pNewData, 0, pData, 0, B.nDataLength + 1)

\* Empty that attaches the nil buffer without taking a reference to it.
EmptyNoNilRef(M, h) ==
    LET pOldData == GetData(M, h)
        B == M.bufs[pOldData]
    IN IF B.nDataLength = 0 THEN M
       ELSE IF IsLocked(B) THEN SetLength(M, h, 0)
       ELSE Attach(Release(M, pOldData), h, NilOf(B.mgr))

\* Empty that does not look at the lock.
EmptyIgnoresLock(M, h) ==
    LET pOldData == GetData(M, h)
        B == M.bufs[pOldData]
    IN IF B.nDataLength = 0 THEN M
       ELSE LET M1 == GetNilString(Release(M, pOldData), B.mgr)
            IN Attach(M1, h, M1.ret)

\* CSimpleStringT::Empty
Empty(M, h) ==
    LET pOldData == GetData(M, h)
        B == M.bufs[pOldData]
    IN IF B.nDataLength = 0 THEN M
       ELSE IF IsLocked(B) THEN SetLength(M, h, 0)
       ELSE LET M1 == GetNilString(Release(M, pOldData), B.mgr)
            IN Attach(M1, h, M1.ret)

\* CSimpleStringT::FreeExtra
FreeExtra(M, h, al) ==
    LET pOldData == GetData(M, h)
        B == M.bufs[pOldData]
        nLength == B.nDataLength
    IN IF B.nAllocLength = nLength THEN M
       ELSE IF IsLocked(B) THEN M
       ELSE LET M1 == Allocate(M, B.mgr, nLength, al)
                pNewData == M1.ret
            IN IF pNewData = NoBuf THEN SetLength(M1, h, nLength)
               ELSE LET M2 == CopyChars(M1, pNewData, 0, pOldData, 0, nLength)
                        M3 == Attach(Release(M2, pOldData), h, pNewData)
                    IN SetLength(M3, h, nLength)

\* ------------------------------------------------------------ sources
\* A source span (pszSrc, nLength) as a caller passes it:
\*   null  pszSrc is NULL
\*   k     >= 0: pszSrc = GetString() + k, a pointer into the handle's own
\*         payload; -1: a pointer to the span s outside every buffer
\*   n     nLength
ExtArgs ==
    {[null |-> FALSE, k |-> -1, s |-> s, n |-> Len(s)] : s \in Srcs}
        \cup {[null |-> TRUE, k |-> -1, s |-> <<>>, n |-> 1],
              [null |-> FALSE, k |-> -1, s |-> <<1>>, n |-> -1]}

\* strnlen over a payload, from 0-based offset off, at most n characters.
RECURSIVE Strnlen(_, _, _)
Strnlen(data, off, n) ==
    IF n <= 0 \/ off + 1 > Len(data) THEN 0
    ELSE IF data[off + 1] = NUL THEN 0
    ELSE 1 + Strnlen(data, off + 1, n - 1)

\* CSimpleStringT::StringLengthN
StringLengthN(M, h, a) ==
    IF a.null THEN 0
    ELSE IF a.k >= 0 THEN Strnlen(M.bufs[GetData(M, h)].data, a.k, a.n)
    ELSE Strnlen(a.s, 0, a.n)

\* Append that does not look for a source inside its own buffer.
AppendSpanNoAliasCheck(M, h, a, al) ==
    LET nOldLength == GetLength(M, h)
    IN IF a.n < 0 THEN AmvThrow(M)
       ELSE LET nLength == StringLengthN(M, h, a)
                nNewLength == nOldLength + nLength
                M1 == GetBuffer(M, h, nNewLength, al)
                b == GetData(M1, h)
                M2 == CopyCharsFrom(M1, b, nOldLength, a.s, nLength)
            IN IF IntMax - nLength < nOldLength THEN AmvThrow(M)
               ELSE IF M1.fault # "none" THEN M1
               ELSE ReleaseBufferSetLength(M2, h, nNewLength)

\* CSimpleStringT::Append(PCXSTR, int)  (Append is taken by Sequences)
AppendSpan(M, h, a, al) ==
    LET nOldLength == GetLength(M, h)
        aliased == a.k >= 0 /\ a.k <= nOldLength
    IN IF a.n < 0 THEN AmvThrow(M)
       ELSE LET nLength == StringLengthN(M, h, a)
                nNewLength == nOldLength + nLength
                M1 == GetBuffer(M, h, nNewLength, al)
                b == GetData(M1, h)
                M2 == IF aliased
                      THEN CopyChars(M1, b, nOldLength, b, a.k, nLength)
                      ELSE CopyCharsFrom(M1, b, nOldLength, a.s, nLength)
            IN IF IntMax - nLength < nOldLength THEN AmvThrow(M)
               ELSE IF M1.fault # "none" THEN M1
               ELSE ReleaseBufferSetLength(M2, h, nNewLength)

\* CSimpleStringT::AppendChar
AppendChar(M, h, ch, al) ==
    LET nOldLength == GetLength(M, h)
        nNewLength == nOldLength + 1
        M1 == GetBuffer(M, h, nNewLength, al)
        b == GetData(M1, h)
    IN IF M1.fault # "none" THEN M1
       ELSE ReleaseBufferSetLength(
                [M1 EXCEPT !.bufs[b].data[nOldLength + 1] = ch], h, nNewLength)

\* SetString that copies forward, one character after the other, from the
\* start of its buffer (the offset of the source is lost).
SetStringFromStart(M, h, a, al) ==
    IF a.n = 0 THEN Empty(M, h)
    ELSE IF a.null THEN AmvThrow(M)
    ELSE LET M1 == GetBuffer(M, h, a.n, al)
             b == GetData(M1, h)
             M2 == IF a.k >= 0 THEN M1
                   ELSE CopyCharsFrom(M1, b, 0, a.s, a.n)
         IN IF M1.fault # "none" THEN M1
            ELSE ReleaseBufferSetLength(M2, h, a.n)

\* CSimpleStringT::SetString(PCXSTR, int)
SetString(M, h, a, al) ==
    IF a.n = 0 THEN Empty(M, h)
    ELSE IF a.null THEN AmvThrow(M)
    ELSE LET nOldLength == GetLength(M, h)
             aliased == a.k >= 0 /\ a.k <= nOldLength
             M1 == GetBuffer(M, h, a.n, al)
             b == GetData(M1, h)
             M2 == IF aliased THEN CopyChars(M1, b, 0, b, a.k, a.n)
                   ELSE CopyCharsFrom(M1, b, 0, a.s, a.n)
         IN IF M1.fault # "none" THEN M1
            ELSE ReleaseBufferSetLength(M2, h, a.n)

\* The span (strSrc.GetString(), strSrc.GetLength()) of another handle.
SpanOf(M, g) ==
    LET B == M.bufs[GetData(M, g)]
    IN [null |-> FALSE, k |-> -1, s |-> SubSeq(B.data, 1, B.nDataLength),
        n |-> B.nDataLength]

\* operator= that shares whatever the lock and the managers are.
AssignAlwaysShares(M, h, g, al) ==
    LET pSrcData == GetData(M, g)
        pOldData == GetData(M, h)
    IN IF pSrcData = pOldData THEN M
       ELSE LET M1 == CloneData(M, pSrcData, al)
            IN IF M1.fault # "none" THEN M1
               ELSE Attach(Release(M1, pOldData), h, M1.ret)

\* CSimpleStringT::operator=(const CSimpleStringT&)
Assign(M, h, g, al) ==
    LET pSrcData == GetData(M, g)
        pOldData == GetData(M, h)
    IN IF pSrcData = pOldData THEN M
       ELSE IF IsLocked(M.bufs[pOldData])
               \/ M.bufs[pSrcData].mgr # M.bufs[pOldData].mgr
       THEN SetString(M, h, SpanOf(M, g), al)
       ELSE LET M1 == CloneData(M, pSrcData, al)
            IN IF M1.fault # "none" THEN M1
               ELSE Attach(Release(M1, pOldData), h, M1.ret)

\* CSimpleStringT::CSimpleStringT(IAmvStringMgr*)
ConstructNil(M, h, m) ==
    LET M1 == GetNilString(M, m) IN Attach(M1, h, M1.ret)

\* CSimpleStringT::CSimpleStringT(const CSimpleStringT&)
ConstructCopy(M, h, g, al) ==
    LET M1 == CloneData(M, GetData(M, g), al)
    IN IF M1.fault # "none" THEN M1 ELSE Attach(M1, h, M1.ret)

\* CSimpleStringT::CSimpleStringT(const XCHAR*, int, IAmvStringMgr*)
ConstructChars(M, h, a, m, al) ==
    IF a.null /\ a.n # 0 THEN AmvThrow(M)
    ELSE LET M1 == Allocate(M, m, a.n, al)
             pData == M1.ret
         IN IF pData = NoBuf THEN ThrowMemoryException(M1)
            ELSE CopyCharsFrom(SetLength(Attach(M1, h, pData), h, a.n),
                               pData, 0, a.s, a.n)

\* A destructor that forgets its buffer.
DestroyNoRelease(M, h) == Attach(M, h, NoBuf)

\* CSimpleStringT::~CSimpleStringT
Destroy(M, h) == Attach(Release(M, GetData(M, h)), h, NoBuf)

\* CSimpleStringT::LockBuffer
LockBuffer(M, h, al) ==
    LET B == M.bufs[GetData(M, h)]
        M0 == [M EXCEPT !.mut = TRUE]
        M1 == IF IsShared(B) THEN Fork(M0, h, B.nDataLength, al) ELSE M0
    IN IF M1.fault # "none" THEN M1 ELSE Lock(M1, GetData(M1, h))

\* CSimpleStringT::UnlockBuffer
UnlockBuffer(M, h) == Unlock(M, GetData(M, h))

\* CSimpleStringT::Preallocate
Preallocate(M, h, nLength, al) == PrepareWrite(M, h, nLength, al)

\* ReleaseBuffer that looks for the terminator without a bound.
ReleaseBufferUnbounded(M, h, nNewLength) ==
    LET B == M.bufs[GetData(M, h)]
    IN IF nNewLength = -1
       THEN SetLength(M, h, Strnlen(B.data, 0, Len(B.data)))
       ELSE SetLength(M, h, nNewLength)

\* CSimpleStringT::ReleaseBuffer
ReleaseBuffer(M, h, nNewLength) ==
    LET B == M.bufs[GetData(M, h)]
    IN IF nNewLength = -1
       THEN SetLength(M, h, Strnlen(B.data, 0, B.nAllocLength))
       ELSE SetLength(M, h, nNewLength)

\* CSimpleStringT::Truncate
Truncate(M, h, nNewLength, al) ==
    ReleaseBufferSetLength(GetBuffer(M, h, nNewLength, al), h, nNewLength)

\* CSimpleStringT::SetAt
SetAt(M, h, iChar, ch, al) ==
    IF iChar < 0 \/ iChar >= GetLength(M, h) THEN AmvThrow(M)
    ELSE LET nLength == GetLength(M, h)
             M1 == GetBuffer0(M, h, al)
             b == GetData(M1, h)
         IN IF M1.fault # "none" THEN M1
            ELSE ReleaseBufferSetLength(
                     [M1 EXCEPT !.bufs[b].data[iChar + 1] = ch], h, nLength)

\* CSimpleStringT::SetManager
SetManager(M, h, m) ==
    LET M1 == GetNilString(Release(M, GetData(M, h)), m)
    IN Attach(M1, h, M1.ret)

\* A write of one character through the pointer GetBuffer or LockBuffer
\* returned.
WriteRaw(M, h, iChar, ch) ==
    [M EXCEPT !.bufs[GetData(M, h)].data[iChar + 1] = ch]

\* CSimpleStringT::GetManager
GetManager(M, h) == Clone(M.bufs[GetData(M, h)].mgr)

\* A PCXSTR: k characters into the payload of buffer b, or (b = NoBuf) the
\* start of the characters s outside every buffer.
PtrInto(b, k) == [b |-> b, k |-> k, s |-> <<>>]
PtrTo(s) == [b |-> NoBuf, k |-> 0, s |-> s]
\* The conversion operator PCXSTR of a handle.
GetString(M, h) == PtrInto(GetData(M, h), 0)

\* CSimpleStringT::StringLength (strlen)
StringLength(M, p) ==
    IF p.b = NoBuf THEN Strnlen(p.s, 0, Len(p.s))
    ELSE Strnlen(M.bufs[p.b].data, p.k, Len(M.bufs[p.b].data))

\* CopyChars from a PCXSTR.
CopyCharsPtr(M, dst, dOff, p, n) ==
    IF p.b = NoBuf THEN CopyCharsFrom(M, dst, dOff, p.s, n)
    ELSE CopyChars(M, dst, dOff, p.b, p.k, n)

\* Concatenate that writes both operands at the start of the result.
ConcatenateOverwrites(M, r, psz1, nLength1, psz2, nLength2, al) ==
    LET nNewLength == nLength1 + nLength2
        M1 == GetBuffer(M, r, nNewLength, al)
        b == GetData(M1, r)
        M2 == CopyCharsPtr(M1, b, 0, psz1, nLength1)
        M3 == CopyCharsPtr(M2, b, 0, psz2, nLength2)
    IN IF M1.fault # "none" THEN M1
       ELSE ReleaseBufferSetLength(M3, r, nNewLength)

\* CSimpleStringT::Concatenate
Concatenate(M, r, psz1, nLength1, psz2, nLength2, al) ==
    LET nNewLength == nLength1 + nLength2
        M1 == GetBuffer(M, r, nNewLength, al)
        b == GetData(M1, r)
        M2 == CopyCharsPtr(M1, b, 0, psz1, nLength1)
        M3 == CopyCharsPtr(M2, b, nLength1, psz2, nLength2)
    IN IF M1.fault # "none" THEN M1
       ELSE ReleaseBufferSetLength(M3, r, nNewLength)

\* The body shared by the three operator+: s is constructed on the
\* manager m, filled by Concatenate and returned in r; when Concatenate
\* throws, s is destroyed on the way out.
Plus(M, r, m, psz1, nLength1, psz2, nLength2, al) ==
    LET M1 == ConstructNil(M, r, m)
        M2 == Concatenate(M1, r, psz1, nLength1, psz2, nLength2, al)
    IN IF M2.fault # "none" THEN Destroy(M2, r) ELSE M2

\* operator+(const CSimpleStringT&, const CSimpleStringT&)
PlusStrStr(M, r, g1, g2, al) ==
    Plus(M, r, GetManager(M, g1), GetString(M, g1), GetLength(M, g1),
         GetString(M, g2), GetLength(M, g2), al)

\* operator+(const CSimpleStringT&, PCXSTR)
PlusStrPsz(M, r, g1, psz2, al) ==
    Plus(M, r, GetManager(M, g1), GetString(M, g1), GetLength(M, g1),
         psz2, StringLength(M, psz2), al)

\* operator+(PCXSTR, const CSimpleStringT&)
PlusPszStr(M, r, psz1, g2, al) ==
    Plus(M, r, GetManager(M, g2), psz1, StringLength(M, psz1),
         GetString(M, g2), GetLength(M, g2), al)

\* ------------------------------------------------------------ state machine
Cells == Chars \cup {NUL}
Lens == -1..MaxLen
NoArg == [null |-> TRUE, k |-> -1, s |-> <<>>, n |-> 0]
AnyAlloc == [ok |-> TRUE, move |-> FALSE, fill |-> 0]

\* A call of a public member: op on handle h with arguments g (source
\* handle), a (source span), n (length or index), ch (character), m
\* (manager), and the allocator's outcome al.
Call(op, h, g, a, n, ch, m, al) ==
    [op |-> op, h |-> h, g |-> g, a |-> a, n |-> n, ch |-> ch, m |-> m,
     al |-> al]

Apply(M, c) ==
    CASE c.op = "ConstructNil" -> ConstructNil(M, c.h, c.m)
      [] c.op = "ConstructCopy" -> ConstructCopy(M, c.h, c.g, c.al)
      [] c.op = "ConstructChars" -> ConstructChars(M, c.h, c.a, c.m, c.al)
      [] c.op = "Destroy" -> Destroy(M, c.h)
      [] c.op = "Assign" -> Assign(M, c.h, c.g, c.al)
      [] c.op = "SetString" -> SetString(M, c.h, c.a, c.al)
      [] c.op = "Append" -> AppendSpan(M, c.h, c.a, c.al)
      [] c.op = "AppendChar" -> AppendChar(M, c.h, c.ch, c.al)
      [] c.op = "Empty" -> Empty(M, c.h)
      [] c.op = "FreeExtra" -> FreeExtra(M, c.h, c.al)
      [] c.op = "GetBuffer0" -> GetBuffer0(M, c.h, c.al)
      [] c.op = "GetBuffer" -> GetBuffer(M, c.h, c.n, c.al)
      [] c.op = "GetBufferSetLength" -> GetBufferSetLength(M, c.h, c.n, c.al)
      [] c.op = "WriteRaw" -> WriteRaw(M, c.h, c.n, c.ch)
      [] c.op = "ReleaseBuffer" -> ReleaseBuffer(M, c.h, c.n)
      [] c.op = "LockBuffer" -> LockBuffer(M, c.h, c.al)
      [] c.op = "UnlockBuffer" -> UnlockBuffer(M, c.h)
      [] c.op = "Preallocate" -> Preallocate(M, c.h, c.n, c.al)
      [] c.op = "Truncate" -> Truncate(M, c.h, c.n, c.al)
      [] c.op = "SetAt" -> SetAt(M, c.h, c.n, c.ch, c.al)
      [] c.op = "SetManager" -> SetManager(M, c.h, c.m)

\* What the caller holds once the call has returned: GetBuffer(),
\* GetBuffer(n) and GetBufferSetLength(n) hand out a pointer that
\* ReleaseBuffer gives back; LockBuffer hands out one that stays until
\* UnlockBuffer unpins the buffer.
Returned(M, c) ==
    LET ok == M.fault = "none"
    IN CASE c.op \in {"GetBuffer0", "GetBuffer", "GetBufferSetLength"} /\ ok ->
              [M EXCEPT !.open[c.h] = TRUE]
         [] c.op = "ReleaseBuffer" /\ ok -> [M EXCEPT !.open[c.h] = FALSE]
         [] c.op = "LockBuffer" /\ ok -> [M EXCEPT !.lockPtr[c.h] = M.hnd[c.h]]
         [] c.op = "UnlockBuffer" /\ ~IsLocked(M.bufs[M.hnd[c.h]]) ->
              [M EXCEPT !.lockPtr[c.h] = NoBuf]
         [] c.op = "Destroy" ->
              [M EXCEPT !.open[c.h] = FALSE, !.lockPtr[c.h] = NoBuf]
         [] OTHER -> M

Step(c) == Returned(Apply(Machine, c), c)

Alive(h) == hnd[h] # NoBuf
\* Between GetBuffer and ReleaseBuffer the caller uses the handle for
\* nothing but writes through the pointer.
Idle(h) == Alive(h) /\ ~open[h]
SpanInside(h, a) == a.k < 0 \/ a.k + a.n <= bufs[hnd[h]].nDataLength

\* The calls a caller may make in the current state.  The AMVASSERTs on
\* arguments (Truncate, SetManager) are the caller's obligation; lengths
\* stay within MaxLen and lock nesting within MaxLockDepth.
Enabled(c) ==
    CASE c.op \in {"ConstructNil", "ConstructChars"} -> ~Alive(c.h)
      [] c.op = "ConstructCopy" -> ~Alive(c.h) /\ Idle(c.g)
      [] c.op = "Destroy" -> Alive(c.h)
      [] c.op = "Assign" -> Idle(c.h) /\ Idle(c.g)
      [] c.op = "SetString" -> Idle(c.h) /\ SpanInside(c.h, c.a)
      [] c.op = "Append" ->
            /\ Idle(c.h) /\ SpanInside(c.h, c.a)
            /\ bufs[hnd[c.h]].nDataLength + c.a.n <= MaxLen
      [] c.op = "AppendChar" ->
            Idle(c.h) /\ bufs[hnd[c.h]].nDataLength + 1 <= MaxLen
      [] c.op = "WriteRaw" ->
            /\ Alive(c.h)
            /\ open[c.h] \/ (lockPtr[c.h] = hnd[c.h]
                               /\ IsLocked(bufs[hnd[c.h]]))
            /\ c.n < bufs[hnd[c.h]].nAllocLength
      [] c.op = "ReleaseBuffer" -> Alive(c.h) /\ open[c.h]
      [] c.op = "LockBuffer" ->
            Idle(c.h) /\ bufs[hnd[c.h]].nRefs > -MaxLockDepth
      [] c.op = "Truncate" ->
            Idle(c.h) /\ c.n <= bufs[hnd[c.h]].nDataLength
      [] c.op = "SetManager" ->
            Idle(c.h) /\ bufs[hnd[c.h]].nDataLength = 0
      [] OTHER -> Idle(c.h)

\* The state once the call has returned or raised its fault.
Commit(M) ==
    /\ hnd' = M.hnd
    /\ bufs' = M.bufs
    /\ owed' = M.owed
    /\ frees' = M.frees
    /\ open' = M.open
    /\ lockPtr' = M.lockPtr
    /\ asserts' = M.asserts
    /\ UNCHANGED <<cvars, gvars>>

Do(c) == Commit(Step(c))

SelfArgs == {[null |-> FALSE, k |-> k, s |-> <<>>, n |-> 1] :
               k \in 0..(MaxLen - 1)}

ConstructNilCalls ==
    {Call("ConstructNil", h, h, NoArg, 0, NUL, m, AnyAlloc) :
        h \in Handles, m \in Mgrs}
ConstructCopyCalls ==
    {Call("ConstructCopy", h, g, NoArg, 0, NUL, 1, al) :
        h \in Handles, g \in Handles, al \in AllocOutcomes}
ConstructCharsCalls ==
    {Call("ConstructChars", h, h, a, 0, NUL, m, al) :
        h \in Handles, a \in ExtArgs, m \in Mgrs, al \in AllocOutcomes}
DestroyCalls ==
    {Call("Destroy", h, h, NoArg, 0, NUL, 1, AnyAlloc) : h \in Handles}
AssignCalls ==
    {Call("Assign", h, g, NoArg, 0, NUL, 1, al) :
        h \in Handles, g \in Handles, al \in AllocOutcomes}
SetStringCalls ==
    {Call("SetString", h, h, a, 0, NUL, 1, al) :
        h \in Writers, a \in ExtArgs \cup SelfArgs, al \in AllocOutcomes}
AppendCalls ==
    {Call("Append", h, h, a, 0, NUL, 1, al) :
        h \in Writers, a \in ExtArgs \cup SelfArgs, al \in AllocOutcomes}
AppendCharCalls ==
    {Call("AppendChar", h, h, NoArg, 0, ch, 1, al) :
        h \in Writers, ch \in Chars, al \in AllocOutcomes}
EmptyCalls ==
    {Call("Empty", h, h, NoArg, 0, NUL, 1, AnyAlloc) : h \in Writers}
FreeExtraCalls ==
    {Call("FreeExtra", h, h, NoArg, 0, NUL, 1, al) :
        h \in Writers, al \in AllocOutcomes}
GetBuffer0Calls ==
    {Call("GetBuffer0", h, h, NoArg, 0, NUL, 1, al) :
        h \in Writers, al \in AllocOutcomes}
GetBufferCalls ==
    {Call("GetBuffer", h, h, NoArg, n, NUL, 1, al) :
        h \in Writers, n \in Lens, al \in AllocOutcomes}
GetBufferSetLengthCalls ==
    {Call("GetBufferSetLength", h, h, NoArg, n, NUL, 1, al) :
        h \in Writers, n \in Lens, al \in AllocOutcomes}
WriteRawCalls ==
    {Call("WriteRaw", h, h, NoArg, i, ch, 1, AnyAlloc) :
        h \in Writers, i \in 0..(MaxLen - 1), ch \in Cells}
ReleaseBufferCalls ==
    {Call("ReleaseBuffer", h, h, NoArg, n, NUL, 1, AnyAlloc) :
        h \in Writers, n \in Lens \cup {MaxLen + 1}}
LockBufferCalls ==
    {Call("LockBuffer", h, h, NoArg, 0, NUL, 1, al) :
        h \in Writers, al \in AllocOutcomes}
UnlockBufferCalls ==
    {Call("UnlockBuffer", h, h, NoArg, 0, NUL, 1, AnyAlloc) : h \in Writers}
PreallocateCalls ==
    {Call("Preallocate", h, h, NoArg, n, NUL, 1, al) :
        h \in Writers, n \in Lens, al \in AllocOutcomes}
TruncateCalls ==
    {Call("Truncate", h, h, NoArg, n, NUL, 1, al) :
        h \in Writers, n \in Lens, al \in AllocOutcomes}
SetAtCalls ==
    {Call("SetAt", h, h, NoArg, i, ch, 1, al) :
        h \in Writers, i \in -1..(MaxLen - 1), ch \in Cells,
        al \in AllocOutcomes}
SetManagerCalls ==
    {Call("SetManager", h, h, NoArg, 0, NUL, m, AnyAlloc) :
        h \in Writers, m \in Mgrs}

\* The members that change the value or the buffer of the handle they are
\* called on.
MutatingCalls ==
    AssignCalls \cup SetStringCalls \cup AppendCalls \cup AppendCharCalls
        \cup EmptyCalls \cup FreeExtraCalls \cup GetBuffer0Calls
        \cup GetBufferCalls \cup GetBufferSetLengthCalls \cup WriteRawCalls
        \cup ReleaseBufferCalls \cup LockBufferCalls \cup UnlockBufferCalls
        \cup PreallocateCalls \cup TruncateCalls \cup SetAtCalls
        \cup SetManagerCalls
Calls ==
    MutatingCalls \cup ConstructNilCalls \cup ConstructCopyCalls
        \cup ConstructCharsCalls \cup DestroyCalls

\* ------------------------------------------------------------ contexts
\* Contexts, the handles each owns, calls per context, buffers.
MaxCtx == 2
MaxOps == 3
MaxCBufs == 3
Ctxs == 1..MaxCtx
Slots == {1, 2}
CBufIds == 1..MaxCBufs

\* Every context owns one handle (slot 1) to buffer 1, which they share.
ConcStart ==
    /\ cbufs = [b \in CBufIds |->
                  IF b = 1 THEN [st |-> "live", nRefs |-> MaxCtx, data |-> 0]
                  ELSE [st |-> "unalloc", nRefs |-> 0, data |-> 0]]
    /\ cfrees = [b \in CBufIds |-> 0]
    /\ chnd = [t \in Ctxs |-> [s \in Slots |-> IF s = 1 THEN 1 ELSE NoBuf]]
    /\ pc = [t \in Ctxs |-> "idle"]
    /\ slot = [t \in Ctxs |-> 1]
    /\ reg = [t \in Ctxs |-> 0]
    /\ pNew = [t \in Ctxs |-> NoBuf]
    /\ nOps = [t \in Ctxs |-> 0]
    /\ racyWrite = FALSE
    /\ earlyFree = FALSE

\* No buffer is being grown.
GrowIdle == gAlloc = 0 /\ gLength = 0 /\ gReq = {} /\ gGrown = 0

NoHandles ==
    /\ hnd = [h \in AllHandles |-> NoBuf]
    /\ bufs = [b \in BufIds |-> IF b \in NilIds THEN CNilStringData(b)
                                ELSE NoData]
    /\ owed = [b \in BufIds |-> 0]
    /\ frees = [b \in BufIds |-> 0]
    /\ open = [h \in AllHandles |-> FALSE]
    /\ lockPtr = [h \in AllHandles |-> NoBuf]
    /\ asserts = {}

Init ==
    /\ NoHandles
    /\ ConcStart
    /\ GrowIdle

\* One action per public member: the call, made on the current state.
CallConstructNil ==
    \E c \in ConstructNilCalls :
        Enabled(c) /\ Commit(Returned(ConstructNil(Machine, c.h, c.m), c))
CallConstructCopy ==
    \E c \in ConstructCopyCalls :
        Enabled(c) /\ Commit(Returned(ConstructCopy(Machine, c.h, c.g, c.al), c))
CallConstructChars ==
    \E c \in ConstructCharsCalls :
        Enabled(c) /\ Commit(Returned(ConstructChars(Machine, c.h, c.a, c.m, c.al), c))
CallDestroy ==
    \E c \in DestroyCalls :
        Enabled(c) /\ Commit(Returned(Destroy(Machine, c.h), c))
CallAssign ==
    \E c \in AssignCalls :
        Enabled(c) /\ Commit(Returned(Assign(Machine, c.h, c.g, c.al), c))
CallSetString ==
    \E c \in SetStringCalls :
        Enabled(c) /\ Commit(Returned(SetString(Machine, c.h, c.a, c.al), c))
CallAppend ==
    \E c \in AppendCalls :
        Enabled(c) /\ Commit(Returned(AppendSpan(Machine, c.h, c.a, c.al), c))
CallAppendChar ==
    \E c \in AppendCharCalls :
        Enabled(c) /\ Commit(Returned(AppendChar(Machine, c.h, c.ch, c.al), c))
CallEmpty ==
    \E c \in EmptyCalls :
        Enabled(c) /\ Commit(Returned(Empty(Machine, c.h), c))
CallFreeExtra ==
    \E c \in FreeExtraCalls :
        Enabled(c) /\ Commit(Returned(FreeExtra(Machine, c.h, c.al), c))
CallGetBuffer0 ==
    \E c \in GetBuffer0Calls :
        Enabled(c) /\ Commit(Returned(GetBuffer0(Machine, c.h, c.al), c))
CallGetBuffer ==
    \E c \in GetBufferCalls :
        Enabled(c) /\ Commit(Returned(GetBuffer(Machine, c.h, c.n, c.al), c))
CallGetBufferSetLength ==
    \E c \in GetBufferSetLengthCalls :
        Enabled(c) /\ Commit(Returned(GetBufferSetLength(Machine, c.h, c.n, c.al), c))
CallWriteRaw ==
    \E c \in WriteRawCalls :
        Enabled(c) /\ Commit(Returned(WriteRaw(Machine, c.h, c.n, c.ch), c))
CallReleaseBuffer ==
    \E c \in ReleaseBufferCalls :
        Enabled(c) /\ Commit(Returned(ReleaseBuffer(Machine, c.h, c.n), c))
CallLockBuffer ==
    \E c \in LockBufferCalls :
        Enabled(c) /\ Commit(Returned(LockBuffer(Machine, c.h, c.al), c))
CallUnlockBuffer ==
    \E c \in UnlockBufferCalls :
        Enabled(c) /\ Commit(Returned(UnlockBuffer(Machine, c.h), c))
CallPreallocate ==
    \E c \in PreallocateCalls :
        Enabled(c) /\ Commit(Returned(Preallocate(Machine, c.h, c.n, c.al), c))
CallTruncate ==
    \E c \in TruncateCalls :
        Enabled(c) /\ Commit(Returned(Truncate(Machine, c.h, c.n, c.al), c))
CallSetAt ==
    \E c \in SetAtCalls :
        Enabled(c) /\ Commit(Returned(SetAt(Machine, c.h, c.n, c.ch, c.al), c))
CallSetManager ==
    \E c \in SetManagerCalls :
        Enabled(c) /\ Commit(Returned(SetManager(Machine, c.h, c.m), c))

Next ==
    \/ CallConstructNil
    \/ CallConstructCopy
    \/ CallConstructChars
    \/ CallDestroy
    \/ CallAssign
    \/ CallSetString
    \/ CallAppend
    \/ CallAppendChar
    \/ CallEmpty
    \/ CallFreeExtra
    \/ CallGetBuffer0
    \/ CallGetBuffer
    \/ CallGetBufferSetLength
    \/ CallWriteRaw
    \/ CallReleaseBuffer
    \/ CallLockBuffer
    \/ CallUnlockBuffer
    \/ CallPreallocate
    \/ CallTruncate
    \/ CallSetAt
    \/ CallSetManager

Spec == Init /\ [][Next]_vars

\* Every step is the call Step(c) of some enabled call c: Apply dispatches
\* to the same members as the actions.
StepsAreCalls == [][\E c \in Calls : Enabled(c) /\ Do(c)]_vars

\* ------------------------------------------------------------ wide values
\* Member functions applied to one handle in any state it can be in: on
\* the nil buffer, or on a buffer of any capacity up to WideLen with any
\* content (characters, embedded NULs, stale characters behind the
\* terminator), alone on it, sharing it with handle 2, or locked.
WideLen == 3
WideKinds == {"nil", "unique", "shared", "locked"}
\* Handle 2 shares handle 1's buffer ("shared"), or does not exist, or has
\* a buffer of its own.
OtherKinds == {"absent", "unique", "locked"}
FirstHeap == Cardinality(Mgrs) + 1
\* Room for one block per handle.
WideBufIds == NilIds \cup (FirstHeap..(FirstHeap + Cardinality(AllHandles) - 1))

WideBuf(kind, m, cap, len, data) ==
    [st |-> "live", mgr |-> m, nDataLength |-> len, nAllocLength |-> cap,
     nRefs |-> CASE kind = "shared" -> 2 [] kind = "locked" -> -1 [] OTHER -> 1,
     data |-> data]

WideState(kind, m, cap, len, data, kind2, m2) ==
    LET heap1 == kind # "nil"
        heap2 == kind2 \in {"unique", "locked"}
        nil1 == IF heap1 THEN NoBuf ELSE NilOf(m)
        nil2 == NoBuf
    IN
    /\ hnd = [h \in AllHandles |->
                CASE h = 1 -> (IF heap1 THEN FirstHeap ELSE nil1)
                  [] h = 2 -> (IF kind = "shared" THEN FirstHeap
                               ELSE IF heap2 THEN FirstHeap + 1
                               ELSE nil2)
                  [] OTHER -> NoBuf]
    /\ bufs = [b \in WideBufIds |->
                 IF b \in NilIds
                 THEN [CNilStringData(b) EXCEPT !.nRefs =
                         @ + (IF b = nil1 THEN 1 ELSE 0)
                           + (IF b = nil2 THEN 1 ELSE 0)]
                 ELSE IF b = FirstHeap /\ heap1
                 THEN WideBuf(kind, m, cap, len, data)
                 ELSE IF b = FirstHeap + 1 /\ heap2
                 THEN WideBuf(kind2, m2, 1, 1, <<1, NUL>>)
                 ELSE NoData]
    /\ owed = [b \in WideBufIds |->
                 IF b \in NilIds
                 THEN (IF b = nil1 THEN 1 ELSE 0) + (IF b = nil2 THEN 1 ELSE 0)
                 ELSE IF kind = "shared" /\ b = FirstHeap THEN 1 ELSE 0]
    /\ frees = [b \in WideBufIds |-> 0]
    /\ open = [h \in AllHandles |-> FALSE]
    /\ lockPtr = [h \in AllHandles |->
                    CASE h = 1 /\ kind = "locked" -> FirstHeap
                      [] h = 2 /\ kind2 = "locked" -> FirstHeap + 1
                      [] OTHER -> NoBuf]
    /\ asserts = {}

WideInit ==
    /\ ConcStart
    /\ GrowIdle
    /\ \E kind \in WideKinds, m \in Mgrs, cap \in 0..WideLen :
          \E len \in 0..cap, data \in [1..(cap + 1) -> Cells] :
            \E kind2 \in OtherKinds, m2 \in Mgrs :
              /\ data[len + 1] = NUL
              /\ kind = "nil" => cap = 0
              /\ kind = "shared" => kind2 = "absent"
              /\ kind2 # "unique" => m2 = 1
              /\ WideState(kind, m, cap, len, data, kind2, m2)

\* A span inside handle 1's own content, as pointer and length, and the
\* same characters copied to an independent temporary.
Self(k, n) == [null |-> FALSE, k |-> k, s |-> <<>>, n |-> n]
Temp(k, n) ==
    [null |-> FALSE, k |-> -1,
     s |-> SubSeq(bufs[hnd[1]].data, k + 1, k + n), n |-> n]
Spans == {kn \in (0..WideLen) \X (0..WideLen) :
            kn[1] + kn[2] <= bufs[hnd[1]].nDataLength}

WideAppend ==
    \E kn \in Spans, al \in AllocOutcomes :
        /\ Idle(1) /\ ~Alive(3)
        /\ bufs[hnd[1]].nDataLength + kn[2] <= WideLen
        /\ Commit(AppendSpan(Machine, 1, Self(kn[1], kn[2]), al))

WideSetString ==
    \E kn \in Spans, al \in AllocOutcomes :
        /\ Idle(1) /\ ~Alive(3)
        /\ Commit(SetString(Machine, 1, Self(kn[1], kn[2]), al))

\* r = a + b, and the end of the life of r, which comes before the next
\* call on a or b.
WidePlus ==
    \E g1 \in Handles, g2 \in Handles, al \in AllocOutcomes :
        /\ Idle(g1) /\ Idle(g2) /\ ~Alive(3)
        /\ GetLength(Machine, g1) + GetLength(Machine, g2) <= WideLen
        /\ Commit(PlusStrStr(Machine, 3, g1, g2, al))

WideDrop == Alive(3) /\ Commit(Destroy(Machine, 3))

\* CStrBufT on handle 1: GetBuffer(nMinLength) at construction, writes
\* through the pointer, ReleaseBuffer(m_nLength) at destruction.
Opened(M, h) == IF M.fault = "none" THEN [M EXCEPT !.open[h] = TRUE] ELSE M
Closed(M, h) == IF M.fault = "none" THEN [M EXCEPT !.open[h] = FALSE] ELSE M

WideGetBuffer ==
    \E n \in 0..WideLen, al \in AllocOutcomes :
        /\ Idle(1) /\ ~Alive(3)
        /\ Commit(Opened(GetBuffer(Machine, 1, n, al), 1))

WideWrite ==
    \E i \in 0..(WideLen - 1), ch \in Cells :
        /\ Alive(1) /\ open[1] /\ i < bufs[hnd[1]].nAllocLength
        /\ Commit(WriteRaw(Machine, 1, i, ch))

WideReleaseBuffer ==
    \E k \in -1..WideLen :
        /\ Alive(1) /\ open[1] /\ k <= bufs[hnd[1]].nAllocLength
        /\ Commit(Closed(ReleaseBuffer(Machine, 1, k), 1))

WideNext ==
    \/ WideAppend
    \/ WideSetString
    \/ WidePlus
    \/ WideDrop
    \/ WideGetBuffer
    \/ WideWrite
    \/ WideReleaseBuffer

WideSpec == WideInit /\ [][WideNext]_vars

\* ------------------------------------------------------------ growth
MaxGrows == 2
\* Capacities around the points where PrepareWrite2 changes its ways.
GrowAllocs ==
    0..5 \cup (OneGiB - 2)..(OneGiB + 2)
         \cup (IntMax - OneMiB - 2)..(IntMax - OneMiB + 2)
         \cup {IntMax - 2, IntMax - 1}
\* Minimum lengths above the capacity a: just above it, around one and a
\* half times it, around one MiB more, and the largest int.
GrowSteps(a) == {1, 2, a \div 2, a \div 2 + 1, OneMiB, OneMiB + 1, IntMax - a}
GrowLengths(a) == {a + d : d \in {e \in GrowSteps(a) : e >= 1 /\ e <= IntMax - a}}

\* The capacity PrepareWrite2 passes to Reallocate.  nNewLength += 1 MiB
\* overflows int when the capacity is within one MiB of INT_MAX; the
\* behaviour is then undefined, and a build either compares the wrapped
\* sum with nLength (and passes nLength) or passes the wrapped sum.
GrowOutcomes(nAllocLength, nLength) ==
    IF nAllocLength > OneGiB /\ nAllocLength > IntMax - OneMiB
    THEN {GrowLength(nAllocLength, nLength), AddInt(nAllocLength, OneMiB)}
    ELSE {GrowLength(nAllocLength, nLength)}

\* CSimpleStringT::Reallocate: the calls of the allocator's Reallocate it
\* makes when asked for nLength on a buffer of capacity nAllocLength.
ReallocateCalls(nAllocLength, nLength) ==
    IF nAllocLength >= nLength \/ nLength <= 0 THEN 0 ELSE 1

GrowInit ==
    /\ NoHandles
    /\ ConcStart
    /\ gAlloc \in GrowAllocs
    /\ gLength \in GrowLengths(gAlloc)
    /\ gReq = {}
    /\ gGrown = 0

\* PrepareWrite2, the branch of the unshared buffer that is too short.
GrowPrepare ==
    /\ gReq = {} /\ gAlloc < gLength
    /\ \E r \in GrowOutcomes(gAlloc, gLength) : gReq' = {r}
    /\ UNCHANGED <<gAlloc, gLength, gGrown, svars, cvars>>

\* Reallocate returns a block of the capacity asked for, and the caller
\* comes back later for more.
GrowGranted ==
    \E r \in gReq :
        /\ ~(gAlloc >= r \/ r <= 0)
        /\ gGrown < MaxGrows
        /\ gGrown' = gGrown + 1
        /\ gAlloc' = r
        /\ gLength' \in GrowLengths(r)
        /\ gReq' = {}
        /\ UNCHANGED <<svars, cvars>>

GrowNext ==
    \/ GrowPrepare
    \/ GrowGranted

GrowSpec == GrowInit /\ [][GrowNext]_vars

\* ------------------------------------------------------------ concurrency
\* The buffer the member context t runs was called on.
Mine(t) == chnd[t][slot[t]]

\* The handle in slot s of context u holds a reference to b: it is attached
\* to b and has not yet given its reference up (a Release whose decrement
\* is done is past its last access to b).
Refers(u, s, b) ==
    /\ chnd[u][s] = b
    /\ ~(slot[u] = s /\ pc[u] \in {"rel_free", "fork_free"})

OthersRefer(t, b) ==
    \E u \in Ctxs, s \in Slots : <<u, s>> # <<t, slot[t]>> /\ Refers(u, s, b)

\* Context t goes on at l; contexts touch nothing but their own machine.
Goto(t, l) == pc' = [pc EXCEPT ![t] = l] /\ UNCHANGED <<svars, gvars>>

\* A context calls a member on one of its handles.
Begin(t, s, l) ==
    /\ pc[t] = "idle" /\ nOps[t] < MaxOps /\ chnd[t][s] # NoBuf
    /\ slot' = [slot EXCEPT ![t] = s]
    /\ nOps' = [nOps EXCEPT ![t] = @ + 1]
    /\ Goto(t, l)
    /\ UNCHANGED <<cbufs, cfrees, chnd, reg, pNew, racyWrite, earlyFree>>

\* CSimpleStringT(const CSimpleStringT&) on the context's own handle s.
BeginCopy(t) ==
    \E s \in Slots : chnd[t][3 - s] = NoBuf /\ Begin(t, s, "clone_read")

\* ~CSimpleStringT
BeginDestroy(t) == \E s \in Slots : Begin(t, s, "rel_dec")

\* A mutating member (GetBuffer(n), then the write).
BeginMutate(t) == \E s \in Slots : Begin(t, s, "pw_read")

\* CloneData: the read of IsLocked().
CloneRead(t) ==
    /\ pc[t] = "clone_read"
    /\ reg' = [reg EXCEPT ![t] = cbufs[Mine(t)].nRefs]
    /\ Goto(t, "clone_addref")
    /\ UNCHANGED <<cbufs, cfrees, chnd, slot, pNew, nOps, racyWrite, earlyFree>>

\* CloneData: AddRef (_InterlockedIncrement), then the new handle attaches.
CloneAddRef(t) ==
    /\ pc[t] = "clone_addref" /\ ~IsLocked([nRefs |-> reg[t]])
    /\ cbufs' = [cbufs EXCEPT ![Mine(t)].nRefs = @ + 1]
    /\ chnd' = [chnd EXCEPT ![t][3 - slot[t]] = Mine(t)]
    /\ Goto(t, "idle")
    /\ UNCHANGED <<cfrees, slot, reg, pNew, nOps, racyWrite, earlyFree>>

\* Release: _InterlockedDecrement, whose result the context keeps.
InterlockedDecrement(t, l) ==
    /\ cbufs' = [cbufs EXCEPT ![Mine(t)].nRefs = @ - 1]
    /\ reg' = [reg EXCEPT ![t] = cbufs[Mine(t)].nRefs - 1]
    /\ Goto(t, l)
    /\ UNCHANGED <<cfrees, chnd, slot, pNew, nOps, racyWrite, earlyFree>>

\* Release: pStringMgr->Free(this) if the decrement gave <= 0; then the
\* handle attaches to b (NoBuf: the handle is gone).
FreeIfLast(t, b, l) ==
    /\ IF reg[t] <= 0
       THEN /\ cfrees' = [cfrees EXCEPT ![Mine(t)] = Min(@ + 1, 2)]
            /\ cbufs' = [cbufs EXCEPT ![Mine(t)].st = "freed"]
            /\ earlyFree' = (earlyFree \/ OthersRefer(t, Mine(t)))
       ELSE UNCHANGED <<cfrees, cbufs, earlyFree>>
    /\ chnd' = [chnd EXCEPT ![t][slot[t]] = b]
    /\ Goto(t, l)
    /\ UNCHANGED <<slot, reg, pNew, nOps, racyWrite>>

RelDec(t) == pc[t] = "rel_dec" /\ InterlockedDecrement(t, "rel_free")
RelFree(t) == pc[t] = "rel_free" /\ FreeIfLast(t, NoBuf, "idle")

\* PrepareWrite: nShared = 1 - nRefs (capacity suffices: nTooShort >= 0).
PwRead(t) ==
    /\ pc[t] = "pw_read"
    /\ reg' = [reg EXCEPT ![t] = cbufs[Mine(t)].nRefs]
    /\ Goto(t, IF 1 - cbufs[Mine(t)].nRefs < 0 THEN "pw2_read" ELSE "write")
    /\ UNCHANGED <<cbufs, cfrees, chnd, slot, pNew, nOps, racyWrite, earlyFree>>

\* PrepareWrite2: the read of IsShared().
Pw2Read(t) ==
    /\ pc[t] = "pw2_read"
    /\ reg' = [reg EXCEPT ![t] = cbufs[Mine(t)].nRefs]
    /\ Goto(t, IF IsShared(cbufs[Mine(t)]) THEN "fork_alloc" ELSE "write")
    /\ UNCHANGED <<cbufs, cfrees, chnd, slot, pNew, nOps, racyWrite, earlyFree>>

CUnused == {b \in CBufIds : cbufs[b].st = "unalloc"}

\* Fork: Allocate; NULL raises the fault and the member is over.
ForkAlloc(t) ==
    /\ pc[t] = "fork_alloc"
    /\ \/ /\ CUnused # {}
          /\ LET b == CHOOSE b \in CUnused : \A c \in CUnused : b <= c
             IN /\ cbufs' = [cbufs EXCEPT
                                ![b] = [st |-> "live", nRefs |-> 1, data |-> 0]]
                /\ pNew' = [pNew EXCEPT ![t] = b]
          /\ Goto(t, "fork_copy")
       \/ /\ Goto(t, "idle")
          /\ UNCHANGED <<cbufs, pNew>>
    /\ UNCHANGED <<cfrees, chnd, slot, reg, nOps, racyWrite, earlyFree>>

\* Fork: CopyChars from the old payload.
ForkCopy(t) ==
    /\ pc[t] = "fork_copy"
    /\ cbufs' = [cbufs EXCEPT ![pNew[t]].data = cbufs[Mine(t)].data]
    /\ Goto(t, "fork_dec")
    /\ UNCHANGED <<cfrees, chnd, slot, reg, pNew, nOps, racyWrite, earlyFree>>

\* Fork: pOldData->Release(); Attach(pNewData).
ForkDec(t) == pc[t] = "fork_dec" /\ InterlockedDecrement(t, "fork_free")
ForkFree(t) == pc[t] = "fork_free" /\ FreeIfLast(t, pNew[t], "write")

\* The write through the pointer GetBuffer returned.
Write(t) ==
    /\ pc[t] = "write"
    /\ cbufs' = [cbufs EXCEPT ![Mine(t)].data = t]
    /\ racyWrite' = (racyWrite \/ OthersRefer(t, Mine(t))
                               \/ cbufs[Mine(t)].st # "live")
    /\ Goto(t, "idle")
    /\ UNCHANGED <<cfrees, chnd, slot, reg, pNew, nOps, earlyFree>>

ConcNext ==
    \/ \E t \in Ctxs : BeginCopy(t)
    \/ \E t \in Ctxs : BeginDestroy(t)
    \/ \E t \in Ctxs : BeginMutate(t)
    \/ \E t \in Ctxs : CloneRead(t)
    \/ \E t \in Ctxs : CloneAddRef(t)
    \/ \E t \in Ctxs : RelDec(t)
    \/ \E t \in Ctxs : RelFree(t)
    \/ \E t \in Ctxs : PwRead(t)
    \/ \E t \in Ctxs : Pw2Read(t)
    \/ \E t \in Ctxs : ForkAlloc(t)
    \/ \E t \in Ctxs : ForkCopy(t)
    \/ \E t \in Ctxs : ForkDec(t)
    \/ \E t \in Ctxs : ForkFree(t)
    \/ \E t \in Ctxs : Write(t)

ConcSpec == Init /\ [][ConcNext]_vars

\* ------------------------------------------------------------ observations
\* What a caller observes through handle h: GetLength() and the characters
\* GetString() points at.
View(M, h) ==
    LET B == M.bufs[M.hnd[h]]
    IN [len |-> B.nDataLength,
        chars |-> [i \in 1..B.nDataLength |->
                     IF i <= Len(B.data) THEN B.data[i] ELSE -1]]

\* The share count of a buffer; a locked buffer has exactly one owner.
ShareCount(B) == IF IsLocked(B) THEN 1 ELSE B.nRefs

Owners(b) == {h \in AllHandles : hnd[h] = b}

\* ------------------------------------------------------------ C1
OthersUnchanged(M, h) ==
    \A g \in Handles \ {h} : Alive(g) => View(M, g) = View(Machine, g)

\* C1: COW isolation.  Whatever mutating member is called on a handle, in
\* any reachable state and whether it returns or raises a fault, the length
\* and the characters observed through every other handle stay the same.
C1_CowIsolation ==
    \A c \in MutatingCalls : Enabled(c) => OthersUnchanged(Step(c), c.h)

\* Two handles share one heap buffer and a mutating call on one of them
\* returns normally with that handle's value changed.
C1_Witness ==
    \E c \in MutatingCalls :
        /\ Enabled(c)
        /\ hnd[1] = hnd[2] /\ hnd[1] \in HeapIds
        /\ Step(c).fault = "none"
        /\ View(Step(c), c.h) # View(Machine, c.h)

\* ------------------------------------------------------------ C2
\* C2: refcount conservation.  A buffer the allocator handed out has been
\* passed to Free exactly if its Release calls number its AddRef calls plus
\* one; Release is never called beyond that, and Free never twice.
C2_RefcountConservation ==
    \A b \in HeapIds :
        /\ frees[b] <= 1
        /\ owed[b] >= -1
        /\ (frees[b] = 1) <=> (owed[b] = -1)

\* One buffer has been freed after its last Release while another is
\* shared by two handles (one AddRef outstanding).
C2_Witness ==
    \E b \in HeapIds, d \in HeapIds :
        /\ frees[b] = 1 /\ owed[b] = -1
        /\ owed[d] = 1 /\ bufs[d].nRefs = 2 /\ Owners(d) = Handles

\* ------------------------------------------------------------ C3
\* C3: nil singleton immortality.  The count of a manager's nil buffer is
\* never zero or below, and the nil buffer is never passed to Free.
C3_NilImmortal ==
    \A m \in Mgrs : bufs[NilOf(m)].nRefs > 0 /\ frees[NilOf(m)] = 0

\* Every handle has been destroyed again, a heap buffer has been freed, and
\* the nil buffers are back at their pinned count.
C3_Witness ==
    /\ \A h \in Handles : ~Alive(h)
    /\ \A b \in HeapIds : bufs[b].st # "unalloc"
    /\ \E b \in HeapIds : frees[b] = 1
    /\ \A m \in Mgrs : bufs[NilOf(m)].nRefs = NilRefs

\* ------------------------------------------------------------ C4
ForkPost(M, h) ==
    (M.mut /\ M.fault = "none") =>
        /\ ShareCount(M.bufs[M.hnd[h]]) = 1
        /\ M.hnd[h] # hnd[h]
        /\ M.bufs[hnd[h]].nRefs = bufs[hnd[h]].nRefs - 1

\* C4: fork postcondition.  When a call that asks for mutable access to
\* the payload returns normally and the handle's buffer was shared, the
\* handle is attached to a buffer with share count 1 and the count of the
\* buffer it was attached to has gone down by exactly 1.
C4_ForkPostcondition ==
    \A c \in MutatingCalls :
        (Enabled(c) /\ IsShared(bufs[hnd[c.h]])) => ForkPost(Step(c), c.h)

\* Two handles share a heap buffer and a call asking for mutable access
\* returns normally.
C4_Witness ==
    \E c \in MutatingCalls :
        /\ Enabled(c)
        /\ hnd[c.h] \in HeapIds /\ bufs[hnd[c.h]].nRefs = 2
        /\ Step(c).mut /\ Step(c).fault = "none"

\* ------------------------------------------------------------ C5
\* h and g are distinct live handles, neither locked, on one manager.
Compatible(h, g) ==
    /\ h # g /\ Alive(h) /\ Alive(g)
    /\ ~IsLocked(bufs[hnd[h]]) /\ ~IsLocked(bufs[hnd[g]])
    /\ bufs[hnd[h]].mgr = bufs[hnd[g]].mgr

\* After h = g both handles are attached to g's buffer, whose count has
\* gone up by one.
SharesAfter(M, h, g) ==
    M.fault = "none" =>
        /\ M.hnd[h] = hnd[g] /\ M.hnd[g] = hnd[g]
        /\ M.bufs[hnd[g]].nRefs = bufs[hnd[g]].nRefs + 1

\* C5 as stated: after h = g with both handles unlocked and on the same
\* manager, both are attached to one buffer whose count is one more
\* than before.
C5_CopySharing_Stated ==
    \A c \in AssignCalls :
        (Enabled(c) /\ Compatible(c.h, c.g)) => SharesAfter(Step(c), c.h, c.g)

\* C5: copy sharing, amended.  After h = g with both handles unlocked and on
\* the same manager, where h was not attached to g's buffer already and the
\* manager's Clone() returns the manager itself, both are attached to g's
\* buffer and its count is one more than before.
C5_CopySharing ==
    \A c \in AssignCalls :
        (/\ Enabled(c) /\ Compatible(c.h, c.g)
         /\ hnd[c.h] # hnd[c.g]
         /\ Clone(bufs[hnd[c.g]].mgr) = bufs[hnd[c.g]].mgr)
            => SharesAfter(Step(c), c.h, c.g)

\* An assignment from a handle on a heap buffer to a handle on another
\* heap buffer of the same self-cloning manager returns normally.
C5_Witness ==
    \E c \in AssignCalls :
        /\ Enabled(c) /\ Compatible(c.h, c.g)
        /\ hnd[c.h] \in HeapIds /\ hnd[c.g] \in HeapIds
        /\ hnd[c.h] # hnd[c.g]
        /\ Clone(bufs[hnd[c.g]].mgr) = bufs[hnd[c.g]].mgr
        /\ Step(c).fault = "none"

\* ------------------------------------------------------------ C6
\* C6: a locked buffer is never shared.  Every locked buffer has exactly
\* one handle attached, AddRef is never called on a locked buffer, and Lock
\* is never called on a buffer with a count above 1.
C6_LockedNeverShared ==
    /\ \A b \in BufIds :
          (bufs[b].st \in {"live", "nil"} /\ IsLocked(bufs[b]))
              => Cardinality(Owners(b)) = 1
    /\ "AddRef" \notin asserts
    /\ "Lock" \notin asserts

\* A handle is copied or assigned from while its buffer is locked, and the
\* copy returns normally.
C6_Witness ==
    \E c \in ConstructCopyCalls \cup AssignCalls :
        /\ Enabled(c)
        /\ Alive(c.g) /\ c.g # c.h
        /\ IsLocked(bufs[hnd[c.g]]) /\ bufs[hnd[c.g]].nDataLength > 0
        /\ Step(c).fault = "none"
        /\ View(Step(c), c.h) = View(Machine, c.g)

\* ------------------------------------------------------------ C7
\* C7: locked pointer stability.  While a handle is locked, the handle
\* stays attached to the buffer whose payload pointer LockBuffer returned.
C7_LockedPointerStable ==
    \A h \in Handles : lockPtr[h] # NoBuf => hnd[h] = lockPtr[h]

\* ------------------------------------------------------------ C8
\* C8 as stated: UnlockBuffer on a locked buffer leaves it with count 1,
\* and LockBuffer followed by UnlockBuffer leaves count 1 whatever the
\* state before (unique, shared or already locked).
C8_UnlockToUnique_Stated ==
    /\ \A c \in UnlockBufferCalls :
          (Enabled(c) /\ IsLocked(bufs[hnd[c.h]]))
              => Step(c).bufs[Step(c).hnd[c.h]].nRefs = 1
    /\ \A c \in LockBufferCalls :
          (Enabled(c) /\ Apply(Machine, c).fault = "none")
              => LET M == UnlockBuffer(Apply(Machine, c), c.h)
                 IN M.bufs[M.hnd[c.h]].nRefs = 1

UnlockPost(M, h) ==
    /\ M.hnd[h] = hnd[h]
    /\ View(M, h) = View(Machine, h)
    /\ M.bufs[hnd[h]].data = bufs[hnd[h]].data
    /\ M.bufs[hnd[h]].nRefs =
          IF bufs[hnd[h]].nRefs = -1 THEN 1 ELSE bufs[hnd[h]].nRefs + 1

LockUnlockPost(M, h) ==
    /\ View(M, h) = View(Machine, h)
    /\ M.bufs[M.hnd[h]].nRefs =
          IF IsLocked(bufs[hnd[h]]) THEN bufs[hnd[h]].nRefs ELSE 1

\* C8: unlock, amended.  UnlockBuffer on a buffer locked once (count -1)
\* leaves it with count 1; on a buffer locked more than once it takes one
\* lock off and the buffer stays locked; either way the content is
\* untouched.  LockBuffer followed by UnlockBuffer leaves count 1 from a
\* unique or shared state, and the lock depth it found from a locked one.
C8_UnlockToUnique ==
    /\ \A c \in UnlockBufferCalls :
          (Enabled(c) /\ IsLocked(bufs[hnd[c.h]])) => UnlockPost(Step(c), c.h)
    /\ \A c \in LockBufferCalls :
          (Enabled(c) /\ Apply(Machine, c).fault = "none")
              => LockUnlockPost(UnlockBuffer(Apply(Machine, c), c.h), c.h)

\* A non-empty heap buffer locked once is about to be unlocked, after raw
\* writes through the locked pointer.
C8_Witness ==
    \E c \in UnlockBufferCalls :
        /\ Enabled(c)
        /\ hnd[c.h] \in HeapIds /\ lockPtr[c.h] = hnd[c.h]
        /\ bufs[hnd[c.h]].nRefs = -1 /\ bufs[hnd[c.h]].nDataLength > 0
        /\ Step(c).bufs[hnd[c.h]].nRefs = 1

\* ------------------------------------------------------------ C9
Untouched(M, h) ==
    /\ M.hnd = hnd
    /\ M.bufs[hnd[h]].nDataLength = bufs[hnd[h]].nDataLength
    /\ View(M, h) = View(Machine, h)
    /\ \A b \in BufIds : M.bufs[b].nRefs = bufs[b].nRefs
    /\ \A b \in BufIds : M.bufs[b].st = bufs[b].st

\* C9: all-or-nothing on failure.  When a mutating call raises a fault
\* (out of memory or invalid argument), the handle is attached to the same
\* buffer with the same length, content and count as before the call, and
\* no other buffer's count has changed.
C9_AllOrNothing ==
    \A c \in MutatingCalls :
        (Enabled(c) /\ Step(c).fault # "none") => Untouched(Step(c), c.h)

\* A call on a handle sharing a non-empty heap buffer fails for lack of
\* memory, and some call fails on an invalid argument.
C9_Witness ==
    /\ \E c \in MutatingCalls :
          /\ Enabled(c)
          /\ hnd[c.h] \in HeapIds /\ bufs[hnd[c.h]].nRefs = 2
          /\ bufs[hnd[c.h]].nDataLength > 0
          /\ Step(c).fault = "OutOfMemory"
    /\ \E c \in MutatingCalls :
          Enabled(c) /\ Step(c).fault = "InvalidArgument"

\* ------------------------------------------------------------ C10
\* C10 as stated: whenever Allocate or Reallocate returns NULL inside a
\* call, the call raises the out-of-memory fault.
C10_ExhaustionSignalled_Stated ==
    \A c \in Calls :
        (Enabled(c) /\ Step(c).allocNull) => Step(c).fault = "OutOfMemory"

FreeExtraKeeps(M, h) ==
    /\ M.fault = "none"
    /\ M.hnd[h] = hnd[h]
    /\ View(M, h) = View(Machine, h)

\* C10: allocator exhaustion, amended.  Whenever Allocate or Reallocate
\* returns NULL inside a call other than FreeExtra, the call raises the
\* out-of-memory fault; FreeExtra returns normally with the handle on its
\* buffer, value unchanged.
C10_ExhaustionSignalled ==
    \A c \in Calls :
        (Enabled(c) /\ Step(c).allocNull)
            => IF c.op = "FreeExtra" THEN FreeExtraKeeps(Step(c), c.h)
               ELSE Step(c).fault = "OutOfMemory"

\* Both kinds of call meet a NULL: a reallocation in place of a buffer that
\* must grow, an allocation for a fork or a copy, and FreeExtra's.
C10_Witness ==
    /\ \E c \in AppendCalls \cup AppendCharCalls :
          Enabled(c) /\ ~IsShared(bufs[hnd[c.h]]) /\ Step(c).allocNull
    /\ \E c \in ConstructCopyCalls \cup LockBufferCalls :
          Enabled(c) /\ Step(c).allocNull
    /\ \E c \in FreeExtraCalls : Enabled(c) /\ Step(c).allocNull

\* ------------------------------------------------------------ C11
Quiescent == \A t \in Ctxs : pc[t] = "idle"
CAttached(b) == \E u \in Ctxs, s \in Slots : chnd[u][s] = b

\* C11: concurrent refcounting.  With contexts that copy, destroy and
\* mutate through their own handles to one shared buffer, interleaved at
\* every read and every interlocked operation: no buffer is freed twice,
\* none is freed while another handle holds a reference to it, no context
\* writes in place to a payload another handle refers to, and once all
\* contexts are between calls a buffer has been freed (once) exactly if no
\* handle is attached to it.
C11_ConcurrentRefcounting ==
    /\ ~racyWrite /\ ~earlyFree
    /\ \A b \in CBufIds :
          /\ cfrees[b] <= 1
          /\ cbufs[b].st = "freed" =>
                ~\E u \in Ctxs, s \in Slots : Refers(u, s, b)
          /\ (Quiescent /\ cbufs[b].st # "unalloc") =>
                (cfrees[b] = 1 <=> ~CAttached(b))

\* Two contexts are inside Fork on the buffer they share, both past the
\* IsShared read and before their decrement.
C11_Witness ==
    \E t \in Ctxs, u \in Ctxs :
        /\ t # u /\ pc[t] = "fork_dec" /\ pc[u] = "fork_dec"
        /\ Mine(t) = Mine(u) /\ cbufs[Mine(t)].nRefs = 2

\* ------------------------------------------------------------ C12
SameResult(M, N, h) ==
    /\ M.fault = N.fault
    /\ View(M, h) = View(N, h)

\* C12: self-aliasing append.  Append of a span inside the handle's own
\* content gives the handle the same length and characters (and raises the
\* same fault, if any) as Append of a copy of that span held outside every
\* buffer, under every outcome of the allocator.
C12_SelfAppend ==
    Idle(1) =>
        \A kn \in Spans, al \in AllocOutcomes :
            SameResult(AppendSpan(Machine, 1, Self(kn[1], kn[2]), al),
                       AppendSpan(Machine, 1, Temp(kn[1], kn[2]), al), 1)

\* The three ways are met with a span that starts inside the content: the
\* buffer is shared (fork), too small and moved by the allocator, or large
\* enough (in place).
C12_Witness ==
    /\ Idle(1) /\ bufs[hnd[1]].nDataLength = 2 /\ bufs[hnd[1]].data[2] # NUL
    /\ LET M == AppendSpan(Machine, 1, Self(1, 1),
                           [ok |-> TRUE, move |-> TRUE, fill |-> 1])
       IN /\ M.fault = "none"
          /\ View(M, 1).len = 3
          /\ \/ IsShared(bufs[hnd[1]])
             \/ bufs[hnd[1]].nAllocLength = 2 /\ M.hnd[1] # hnd[1]
             \/ bufs[hnd[1]].nAllocLength = 3 /\ M.hnd[1] = hnd[1]

\* ------------------------------------------------------------ C13
\* C13: self-aliasing SetString.  SetString of a non-empty span inside the
\* handle's own content, when it returns normally, leaves the handle with
\* the length of the span and the characters the span held before the
\* call.
C13_SelfSetString ==
    Idle(1) =>
        \A kn \in Spans, al \in AllocOutcomes :
            LET M == SetString(Machine, 1, Self(kn[1], kn[2]), al)
            IN (kn[2] > 0 /\ M.fault = "none") =>
                   /\ View(M, 1).len = kn[2]
                   /\ \A i \in 1..kn[2] :
                         View(M, 1).chars[i] = bufs[hnd[1]].data[kn[1] + i]

\* A span that overlaps its destination (it starts one character in and
\* is two long) and differs from the start of the content is set in place.
C13_Witness ==
    /\ Idle(1) /\ bufs[hnd[1]].nDataLength = 3 /\ ~IsShared(bufs[hnd[1]])
    /\ bufs[hnd[1]].data[1] # bufs[hnd[1]].data[2]
    /\ bufs[hnd[1]].data[2] # bufs[hnd[1]].data[3]
    /\ LET M == SetString(Machine, 1, Self(1, 2), AnyAlloc)
       IN M.fault = "none" /\ M.hnd[1] = hnd[1] /\ View(M, 1).len = 2

\* ------------------------------------------------------------ C14
\* The buffers of the operands are as they were: payload, dataLength,
\* allocLength, count (share and lock state).
OperandsKept(M, g1, g2) ==
    /\ M.hnd[g1] = hnd[g1] /\ M.hnd[g2] = hnd[g2]
    /\ M.bufs[hnd[g1]] = bufs[hnd[g1]]
    /\ M.bufs[hnd[g2]] = bufs[hnd[g2]]

\* The value in r is alone on a block that did not exist before the call
\* and holds the characters s.
NewValue(M, r, s) ==
    /\ M.fault = "none"
    /\ M.hnd[r] \in Unused(Machine)
    /\ M.bufs[M.hnd[r]].st = "live" /\ M.bufs[M.hnd[r]].nRefs = 1
    /\ View(M, r).len = Len(s)
    /\ \A i \in 1..Len(s) : View(M, r).chars[i] = s[i]

Content(h) == SubSeq(bufs[hnd[h]].data, 1, bufs[hnd[h]].nDataLength)
\* The characters strlen sees from offset k of handle h's payload.
TailFrom(h, k) ==
    SubSeq(bufs[hnd[h]].data, k + 1,
           k + Strnlen(bufs[hnd[h]].data, k, Len(bufs[hnd[h]].data)))

\* C14: concatenation purity.  For all operands a and b (one handle twice,
\* two handles on one buffer, shared, locked, on different managers) and
\* for a second operand that points into a's content, a + b leaves the
\* buffers of a and b as they were, whether it returns or runs out of
\* memory, and a returned value is alone on a newly allocated buffer that
\* holds a's characters followed by b's.
C14_ConcatPurity ==
    ~Alive(3) =>
        \A g1 \in Handles, g2 \in Handles, al \in AllocOutcomes :
            (Idle(g1) /\ Idle(g2)) =>
                /\ LET M == PlusStrStr(Machine, 3, g1, g2, al)
                   IN /\ OperandsKept(M, g1, g2)
                      /\ M.fault = "none" =>
                            NewValue(M, 3, Content(g1) \o Content(g2))
                      /\ M.fault # "none" => M.hnd[3] = NoBuf
                /\ \A k \in 0..GetLength(Machine, g1) :
                      LET M == PlusStrPsz(Machine, 3, g1,
                                          PtrInto(hnd[g1], k), al)
                      IN /\ OperandsKept(M, g1, g1)
                         /\ M.fault = "none" =>
                               NewValue(M, 3, Content(g1) \o TailFrom(g1, k))

\* Two handles on one buffer, or a locked operand, or operands on two
\* buffers, with non-empty content, are concatenated.
C14_Witness ==
    /\ ~Alive(3) /\ Idle(1) /\ Idle(2)
    /\ GetLength(Machine, 1) = 2 /\ GetLength(Machine, 2) >= 1
    /\ hnd[1] = hnd[2] \/ IsLocked(bufs[hnd[2]])
    /\ LET M == PlusStrStr(Machine, 3, 1, 2, AnyAlloc)
       IN M.fault = "none" /\ View(M, 3).len >= 3

\* ------------------------------------------------------------ C15
\* max(L, candidate) with candidate = A + A/2 below 1 GiB and A + 1 MiB
\* from 1 GiB on.  Within one MiB of INT_MAX the candidate is above every
\* int and above L, so no capacity passed to Reallocate equals it.
StatedRequest(A, L, r) ==
    IF A < OneGiB THEN r = Max(L, A + A \div 2)
    ELSE IF A > IntMax - OneMiB THEN FALSE
    ELSE r = Max(L, A + OneMiB)

\* C15: growth formula.  The capacity passed to Reallocate for a minimum
\* length L on an unshared buffer of capacity A < L is max(L, A + A/2) when
\* A is below 1 GiB and max(L, A + 1 MiB) when A is 1 GiB or more, for
\* every A of the int range.
C15_GrowthFormula ==
    \A r \in gReq : StatedRequest(gAlloc, gLength, r)

\* ------------------------------------------------------------ C16
GrowCalls ==
    AppendCalls \cup AppendCharCalls \cup PreallocateCalls \cup GetBufferCalls

\* The length the call needs room for.
Needed(c, M) ==
    IF c.op \in {"Preallocate", "GetBuffer"} THEN c.n ELSE View(M, c.h).len

\* C16 as stated: no call of Append, AppendChar, Preallocate or
\* GetBuffer(n) lowers the allocLength of its handle, other handles
\* sharing the buffer or not.
C16_GrowthMonotone_Stated ==
    \A c \in GrowCalls :
        Enabled(c) =>
            GetAllocLength(Step(c), c.h) >= GetAllocLength(Machine, c.h)

\* C16: growth monotonicity.  A call of Append, AppendChar, Preallocate or
\* GetBuffer(n) on a handle whose buffer is not shared never lowers the
\* handle's allocLength; on a shared buffer the handle moves to a buffer
\* whose allocLength is the larger of its dataLength and the length the
\* call needs, whatever the allocLength of the shared buffer was.  In both
\* cases the allocLength stays at or above the dataLength.
C16_GrowthMonotone ==
    \A c \in GrowCalls :
        Enabled(c) =>
            LET B == bufs[hnd[c.h]]
            IN /\ GetAllocLength(Step(c), c.h) >= B.nDataLength
               /\ ~IsShared(B) => GetAllocLength(Step(c), c.h) >= B.nAllocLength
               /\ (IsShared(B) /\ Step(c).fault = "none") =>
                     GetAllocLength(Step(c), c.h)
                         = Max(B.nDataLength, Needed(c, Step(c)))

\* A handle with content shares a heap buffer with room to spare and a
\* call that needs less than that returns normally.
C16_Witness ==
    \E c \in GrowCalls :
        /\ Enabled(c) /\ hnd[c.h] \in HeapIds /\ Step(c).fault = "none"
        /\ bufs[hnd[c.h]].nDataLength > 0
        /\ IsShared(bufs[hnd[c.h]])
        /\ GetAllocLength(Step(c), c.h) < bufs[hnd[c.h]].nAllocLength

\* ------------------------------------------------------------ C17
ZeroCalls == EmptyCalls \cup {c \in SetStringCalls : c.a.n = 0}

\* The handle has given up its reference to buffer b: the count is one
\* lower, or the buffer went to Free when the count was 1.
GaveUp(M, b) ==
    IF bufs[b].nRefs = 1
    THEN M.bufs[b].st = "freed" /\ M.frees[b] = frees[b] + 1
    ELSE M.bufs[b] = [bufs[b] EXCEPT !.nRefs = @ - 1]

\* Same buffer, still locked, only dataLength reset.
ResetInPlace(M, h) ==
    /\ M.hnd[h] = hnd[h]
    /\ M.bufs[hnd[h]].nRefs = bufs[hnd[h]].nRefs
    /\ M.bufs[hnd[h]].nAllocLength = bufs[hnd[h]].nAllocLength
    /\ M.bufs[hnd[h]].nDataLength = 0

\* C17 as stated: Empty() or SetString of zero length releases the buffer
\* of every unlocked handle and attaches the nil buffer; a locked handle
\* keeps its buffer with dataLength 0.
C17_SetEmpty_Stated ==
    \A c \in ZeroCalls :
        Enabled(c) =>
            IF IsLocked(bufs[hnd[c.h]])
            THEN ResetInPlace(Step(c), c.h)
            ELSE /\ Step(c).hnd[c.h] \in NilIds
                 /\ GaveUp(Step(c), hnd[c.h])

\* C17: setting to empty.  Empty() or SetString of zero length on a handle
\* with content and an unlocked buffer gives up the reference to that
\* buffer and attaches the nil buffer of the buffer's manager; with
\* content and a locked buffer it keeps the buffer, still locked, with
\* dataLength 0 and the same allocLength; on a handle without content it
\* changes nothing (the handle stays on the buffer it has, a heap buffer
\* included, and no reference is given up).
C17_SetEmpty ==
    \A c \in ZeroCalls :
        Enabled(c) =>
            LET B == bufs[hnd[c.h]]
            IN /\ Step(c).fault = "none"
               /\ B.nDataLength = 0 =>
                     Step(c).hnd = hnd /\ Step(c).bufs = bufs
               /\ (B.nDataLength > 0 /\ IsLocked(B)) =>
                     ResetInPlace(Step(c), c.h)
               /\ (B.nDataLength > 0 /\ ~IsLocked(B)) =>
                     /\ Step(c).hnd[c.h] = NilOf(B.mgr)
                     /\ GaveUp(Step(c), hnd[c.h])

\* The three cases: content on a shared buffer is dropped; a locked buffer
\* with content is reset; an empty handle on a heap buffer stays there.
C17_Witness ==
    \E c \in ZeroCalls :
        /\ Enabled(c) /\ hnd[c.h] \in HeapIds
        /\ \/ bufs[hnd[c.h]].nDataLength > 0 /\ IsShared(bufs[hnd[c.h]])
              /\ Step(c).hnd[c.h] \in NilIds
           \/ bufs[hnd[c.h]].nDataLength > 0 /\ IsLocked(bufs[hnd[c.h]])
              /\ Step(c).hnd[c.h] = hnd[c.h]
           \/ bufs[hnd[c.h]].nDataLength = 0 /\ bufs[hnd[c.h]].nRefs = 1
              /\ Step(c).hnd[c.h] = hnd[c.h]

\* ------------------------------------------------------------ C18
\* h = g takes the copying branch of operator=.
CopyingAssign(c) ==
    /\ Enabled(c)
    /\ hnd[c.h] # hnd[c.g]
    /\ \/ IsLocked(bufs[hnd[c.h]])
       \/ bufs[hnd[c.g]].mgr # bufs[hnd[c.h]].mgr

\* No AddRef on the source's buffer, nothing else done to it either, and
\* after a normal return both handles have the same content.
CopiedNotShared(M, c) ==
    /\ M.hnd[c.g] = hnd[c.g]
    /\ M.bufs[hnd[c.g]] = bufs[hnd[c.g]]
    /\ M.owed[hnd[c.g]] = owed[hnd[c.g]]
    /\ M.fault = "none" =>
          /\ M.hnd[c.h] # hnd[c.g]
          /\ View(M, c.h) = View(M, c.g)

\* C18 as stated: in the copying branch the source's count is unchanged,
\* the contents are equal afterwards, and the target is on a freshly
\* allocated buffer.
C18_NonSharingAssign_Stated ==
    \A c \in AssignCalls :
        CopyingAssign(c) =>
            /\ CopiedNotShared(Step(c), c)
            /\ Step(c).fault = "none" => Step(c).hnd[c.h] \in Unused(Machine)

\* C18: non-sharing assignment.  When h2 = h1 is performed and h2's buffer
\* is locked or the two buffers have different managers, h1's buffer is
\* left as it is (no AddRef), and after a normal return h2 has h1's
\* length and characters on a buffer other than h1's.  The characters go
\* into h2's own buffer when it is not shared and has the capacity; a new
\* block is allocated only when h2's buffer is shared; a buffer that is
\* too small goes through the allocator's Reallocate; and for an empty h1
\* the target is set to empty (Empty()).
C18_NonSharingAssign ==
    \A c \in AssignCalls :
        CopyingAssign(c) =>
            LET B1 == bufs[hnd[c.g]]
                B2 == bufs[hnd[c.h]]
            IN /\ CopiedNotShared(Step(c), c)
               /\ Step(c).fault = "none" =>
                     /\ (B1.nDataLength > 0 /\ ~IsShared(B2)
                            /\ B2.nAllocLength >= B1.nDataLength) =>
                           Step(c).hnd[c.h] = hnd[c.h]
                     /\ (B1.nDataLength > 0 /\ IsShared(B2)) =>
                           Step(c).hnd[c.h] \in Unused(Machine)
                     /\ B1.nDataLength = 0 =>
                           Step(c).hnd[c.h] =
                               IF IsLocked(B2) \/ B2.nDataLength = 0
                               THEN hnd[c.h] ELSE NilOf(B2.mgr)
                     /\ Step(c).hnd[c.h] \in Unused(Machine) =>
                           \/ IsShared(B2)
                           \/ B2.nAllocLength < B1.nDataLength

\* A locked target with the capacity takes the characters of a source
\* with content, in place.
C18_Witness ==
    \E c \in AssignCalls :
        /\ CopyingAssign(c) /\ IsLocked(bufs[hnd[c.h]])
        /\ bufs[hnd[c.g]].nDataLength > 0
        /\ View(Machine, c.h) # View(Machine, c.g)
        /\ Step(c).fault = "none" /\ Step(c).hnd[c.h] = hnd[c.h]

\* ------------------------------------------------------------ C19
\* The position of the first terminator among the first n characters of
\* data, or n when there is none.
FirstNul(data, n) ==
    CHOOSE i \in 0..n :
        /\ i = n \/ data[i + 1] = NUL
        /\ \A j \in 1..i : data[j] # NUL

\* C19: scoped buffer access.  A GetBuffer(N) that returns leaves the
\* handle (unique, shared, locked or on the nil buffer before) on an
\* unshared buffer of allocLength at least N with the length and
\* characters it had; while the buffer is handed out, ReleaseBuffer(k)
\* with 0 <= k <= allocLength commits length k and the k characters that
\* were written, and ReleaseBuffer() commits the position of the first
\* terminator, at most allocLength.
C19_ScopedBuffer ==
    /\ Idle(1) =>
          \A n \in 0..WideLen, al \in AllocOutcomes :
              LET M == GetBuffer(Machine, 1, n, al)
              IN M.fault = "none" =>
                    /\ ~IsShared(M.bufs[M.hnd[1]])
                    /\ GetAllocLength(M, 1) >= n
                    /\ View(M, 1) = View(Machine, 1)
    /\ (Alive(1) /\ open[1]) =>
          LET B == bufs[hnd[1]]
          IN /\ \A k \in 0..B.nAllocLength :
                   LET M == ReleaseBuffer(Machine, 1, k)
                   IN /\ M.fault = "none" /\ M.hnd[1] = hnd[1]
                      /\ View(M, 1).len = k
                      /\ \A i \in 1..k : View(M, 1).chars[i] = B.data[i]
             /\ LET M == ReleaseBuffer(Machine, 1, -1)
                IN /\ M.fault = "none" /\ M.hnd[1] = hnd[1]
                   /\ View(M, 1).len = FirstNul(B.data, B.nAllocLength)
                   /\ \A i \in 1..View(M, 1).len :
                         View(M, 1).chars[i] = B.data[i]

\* A handle of length 1 has been given a buffer of capacity WideLen that
\* now holds WideLen characters with no terminator behind them: they are
\* committed by length and by detection.
C19_Witness ==
    /\ Alive(1) /\ open[1]
    /\ bufs[hnd[1]].nDataLength = 1 /\ bufs[hnd[1]].nAllocLength = WideLen
    /\ \A i \in 1..(WideLen + 1) : bufs[hnd[1]].data[i] # NUL
    /\ View(ReleaseBuffer(Machine, 1, WideLen), 1).len = WideLen
    /\ View(ReleaseBuffer(Machine, 1, -1), 1).len = WideLen

\* ------------------------------------------------------------ C20
\* C20: count equals owners.  Between calls, every heap buffer that is
\* allocated and not freed and has a positive count has as many handles
\* attached as its count says; no handle is attached to a buffer that went
\* to Free (or that the allocator moved away); no buffer went to Free
\* twice; and when no handle exists there is no allocated buffer left and
\* every buffer that was allocated went to Free exactly once (a block the
\* allocator's Reallocate moved lives on as the block it returned).
C20_CountEqualsOwners ==
    /\ \A b \in HeapIds :
          /\ (bufs[b].st = "live" /\ bufs[b].nRefs > 0) =>
                bufs[b].nRefs = Cardinality(Owners(b))
          /\ bufs[b].st \in {"freed", "moved", "unalloc"} => Owners(b) = {}
          /\ frees[b] <= 1
          /\ bufs[b].st = "freed" <=> frees[b] = 1
    /\ (\A h \in AllHandles : ~Alive(h)) =>
          \A b \in HeapIds : bufs[b].st # "live"

\* Every handle is gone after every heap block was in use, and a block
\* went to Free, once.
C20_Witness ==
    /\ \A h \in AllHandles : ~Alive(h)
    /\ \E b \in HeapIds : bufs[b].st = "freed" /\ frees[b] = 1
    /\ \A b \in HeapIds : bufs[b].st # "unalloc"

\* ------------------------------------------------------------ C21
\* Requests for mutable access of a minimum length.
RequestCalls ==
    {c \in GetBufferCalls \cup PreallocateCalls : c.n >= 0}

\* The allocator calls of one request, by the state of the buffer B.
ByState(M, c, B) ==
    /\ ~M.reallocShared
    /\ (~IsShared(B) /\ B.nAllocLength >= c.n) =>
          M.allocs = 0 /\ M.reallocs = 0 /\ M.hnd[c.h] = hnd[c.h]
    /\ IsShared(B) => M.allocs = 1 /\ M.reallocs = 0
    /\ (~IsShared(B) /\ B.nAllocLength < c.n) =>
          M.allocs = 0 /\ M.reallocs = 1

WellFormed(M, b) ==
    M.bufs[b].st \in {"live", "nil"} =>
        /\ 0 <= M.bufs[b].nDataLength
        /\ M.bufs[b].nDataLength <= M.bufs[b].nAllocLength
        /\ Len(M.bufs[b].data) = M.bufs[b].nAllocLength + 1
        /\ M.bufs[b].data[M.bufs[b].nDataLength + 1] = NUL

\* The public operations; a write through a pointer handed out is not
\* one of them.
Operations == Calls \ WriteRawCalls

\* Where the call starts from: every live buffer is well-formed, but for
\* the payload ReleaseBuffer is about to commit, which the caller wrote.
StartsWellFormed(c) ==
    \A b \in BufIds :
        (c.op = "ReleaseBuffer" /\ b = hnd[c.h]) \/ WellFormed(Machine, b)

\* C22: buffer well-formedness.  Every public operation that starts with
\* well-formed buffers and returns leaves every live buffer with
\* 0 <= dataLength <= allocLength and the terminator at index dataLength,
\* the buffer a Fork allocated and the payload ReleaseBuffer commits
\* included; an operation that raises a fault leaves well-formed buffers
\* well-formed.
C22_WellFormed ==
    \A c \in Operations :
        (Enabled(c) /\ StartsWellFormed(c)) =>
            \A b \in BufIds :
                (Step(c).fault = "none" \/ WellFormed(Machine, b)) =>
                    WellFormed(Step(c), b)

\* A handle with content on a shared heap buffer is moved by Fork to a
\* block whose memory held no terminator, and the operation returns.
C22_Witness ==
    \E c \in Operations :
        /\ Enabled(c) /\ StartsWellFormed(c)
        /\ hnd[c.h] \in HeapIds /\ IsShared(bufs[hnd[c.h]])
        /\ bufs[hnd[c.h]].nDataLength > 0
        /\ c.al.ok /\ c.al.fill # NUL
        /\ Step(c).fault = "none"
        /\ Step(c).hnd[c.h] \in Unused(Machine)
        /\ Step(c).bufs[Step(c).hnd[c.h]].nAllocLength
              > bufs[hnd[c.h]].nDataLength
====
